---- MODULE Spec2Model ----
(***************************************************************************)
(* Model of the Supernote .note injection path of app/note_processor.py:   *)
(* inject_ocr_results, reconstruct_with_recognition,                       *)
(* pack_pages_with_recognition and pack_footer_preserving_extras, run      *)
(* against a one-file filesystem (the target path and its backup copy).    *)
(***************************************************************************)
EXTENDS Integers, Sequences, FiniteSets, TLC

VARIABLES
    pc,             \* position of inject_ocr_results in its code
    backup_dir,     \* argument: TRUE when a backup directory is supplied
    recogn_type,    \* argument: FILE_RECOGN_TYPE setting
    page_results,   \* argument: the keys of the page_results dict
    pending,        \* keys of page_results the for loop has not visited yet
    orig,           \* the notebook stored in the target file before the call
    disk,           \* content of the target path note_path
    backup,         \* content of backup_path (NoFile when it does not exist)
    notebook,       \* the in-memory notebook (NoNotebook before load_notebook)
    loaded,         \* the notebook exactly as load_notebook returned it
    reconstructed,  \* bytes returned by builder.build() (NoBytes before)
    warnings,       \* records written with logger.warning
    exc,            \* the exception in flight or raised to the caller
    returned,       \* what the call returned (ReturnedNothing until it returns)
    times,          \* st_atime and st_mtime of the target path, in seconds
    original_stat,  \* the local original_stat (NoStat until note_path.stat())
    writes,         \* write operations performed on the target path so far
    files,          \* two calls: content of each target path
    backups,        \* two calls: content of each file of the backup directory
    clock,          \* two calls: the wall clock, in seconds
    call,           \* two calls: the arguments and locals of each call
    serial,         \* two calls: the second starts when the first has ended
    text_blocks,    \* converter: ocr_result.text_blocks
    lines,          \* converter: what _group_words_into_lines returned
    elements,       \* converter: the payload's "elements" list
    full_text,      \* converter: full_text_with_breaks
    stage,          \* converter: position in convert_ocr_to_supernote_format
    asked_page,     \* get_existing_ocr_text: its page_number argument
    note,           \* processing: the pages of the .note file on disk
    db_file,        \* processing: the file's row of note_files, <<>> if none
    db_pages,       \* processing: the rows of page_processing
    write_to_note,  \* processing: the WRITE_TO_NOTE setting
    run,            \* processing: number of the process_note_file call
    step,           \* processing: position of process_note_file in its code
    at_page,        \* processing: the page_num variable of the page loop
    results,        \* processing: the keys of the local page_results dict
    tally,          \* processing: pages_processed, pages_skipped, pages_failed
    log             \* processing: what each call did (history)

inject_vars ==
    <<pc, backup_dir, recogn_type, page_results, pending, orig, disk, backup,
      notebook, loaded, reconstructed, warnings, exc, writes, returned, times,
      original_stat>>
call_vars == <<files, backups, clock, call, serial>>
line_vars == <<text_blocks, lines, elements, full_text, stage>>
read_vars == <<asked_page>>
run_vars ==
    <<note, db_file, db_pages, write_to_note, run, step, at_page, results,
      tally, log>>
vars == <<inject_vars, call_vars, line_vars, read_vars, run_vars>>

-----------------------------------------------------------------------------
(* Bounds of the model *)

MaxPages == 2
MaxEntries == 2
MaxTicks == 1
MaxBlocks == 3
MaxMarks == 2
MaxRuns == 2

-----------------------------------------------------------------------------
(* Values *)

\* Python None returned by page.get_recogn_text() when the page has no block
NoneVal == "<None>"
\* the placeholder string compared against at note_processor.py:435
NoValueMarker == "None"
ExistingPayload == "old"

\* parser.SupernoteXParser.SN_SIGNATURES[-1] and an older entry of that list
LatestSignature == "SN_FILE_VER_20230015"
OlderSignature == "SN_FILE_VER_20220013"

Absent == "<absent>"

\* Python values where a field or a result may be of more than one type
PyBool(b) == [type |-> "bool", int |-> IF b THEN 1 ELSE 0]
PyInt(n) == [type |-> "int", int |-> n]
PyList(items) == [type |-> "list", items |-> items]

NoFile == [kind |-> "nofile"]
NoNotebook == [kind |-> "nonotebook"]
NoBytes == [kind |-> "nobytes"]

\* file contents: a complete image, the empty file, a strict non-empty prefix
FullFile(b) == [kind |-> "full", data |-> b]
EmptyFile == [kind |-> "empty"]
PrefixOf(b) == [kind |-> "prefix", data |-> b]

\* keys of page_results the callers may pass (Python ints, negative included)
PageKeys == (0 - MaxPages) .. MaxPages

\* convert_ocr_to_supernote_format(ocr_result, width, height) for the entry
\* stored under key k: one base64 payload per entry
PayloadOf(k) == "ocr" \o ToString(k)

-----------------------------------------------------------------------------
(* Metadata mappings (Python dicts) *)

DictGet(d, k, default) == IF k \in DOMAIN d THEN d[k] ELSE default

DictSet(d, k, v) == [x \in (DOMAIN d) \cup {k} |-> IF x = k THEN v ELSE d[x]]

EmptyDict == <<>>

-----------------------------------------------------------------------------
(* manip.NotebookBuilder: an append-only list of labelled blocks.  The      *)
(* address of a block is its position in the list (offsets grow with it);  *)
(* address 0 stands for "no such block".                                   *)

Label(base, n, part) == [base |-> base, n |-> n, part |-> part]

\* a block carries a string-valued dict, an integer-valued dict or raw bytes
Block(label, strs, ints, raw) ==
    [label |-> label, strs |-> strs, ints |-> ints, raw |-> raw]

NewBuilder == <<>>

append(builder, label, block) == Append(builder, [block EXCEPT !.label = label])

get_labels(builder) == {builder[i].label : i \in 1..Len(builder)}

get_duplicate_block_address_list(builder, label) ==
    {i \in 1..Len(builder) : builder[i].label = label}

get_block_address(builder, label) ==
    LET all == get_duplicate_block_address_list(builder, label)
    IN  IF all = {} THEN 0 ELSE CHOOSE i \in all : \A j \in all : i <= j

\* manip._construct_metadata_block for a string-valued and an integer-valued dict
StrMetadataBlock(d) == Block(Label("", 0, ""), d, EmptyDict, "")
IntMetadataBlock(d) == Block(Label("", 0, ""), EmptyDict, d, "")
RawBlock(bytes) == Block(Label("", 0, ""), EmptyDict, EmptyDict, bytes)

-----------------------------------------------------------------------------
(* Notebooks.  A parsed notebook is                                        *)
(*   [signature, header, pages, footer]                                    *)
(* header: dict of strings; footer: dict from <<key, n>> to integers       *)
(* (block addresses, and the values of the flags the device keeps there);  *)
(* a page is [recogn_text, recogn_file, totalpath, layers, style,          *)
(* metadata], metadata a dict of integers, layers the five layer slots     *)
(* [name, content]; marks: the titles, keywords and links, each          *)
(* [base, id, content]; cover: the cover image or NoneVal.  A footer entry *)
(* of a title, keyword or link is an int or a list of ints, carried as     *)
(* PyInt or PyList.                                                        *)

FooterKey(base, n) == <<base, n>>

\* style templates: a built-in one and a user one (PAGESTYLE, with the
\* hash of a user template folded into the name)
StyleWhite == "style_white"
StyleUser == "user_pdf_1a2b"
Styles == {StyleWhite, StyleUser}

\* label prefixes of titles, keywords and links
MarkBases == {"TITLE_", "KEYWORD_", "LINKO_"}

CoverLabel == Label("COVER_", 2, "")

\* footer keys the builder recomputes from block addresses
RecomputedBases == {"FILE_FEATURE", "PAGE", "TITLE_", "KEYWORD_", "LINKO_",
                    "COVER_"} \cup {"STYLE_" \o st : st \in Styles}

\* truthiness test of note_processor.py:435
HasRecognText(recogn_text) ==
    /\ recogn_text # NoneVal
    /\ recogn_text # ""
    /\ recogn_text # NoValueMarker

\* the five layer slots of a page, in the order page.get_layers() gives them
LayerNames == <<"MAINLAYER", "LAYER1", "LAYER2", "LAYER3", "BGLAYER">>

PageLabel(page_number, part) == Label("PAGE", page_number, part)
LayerLabel(page_number, layer_name, part) ==
    Label("PAGE", page_number, layer_name \o "/" \o part)
\* the block of a style template, f'STYLE_{style}', and its footer key
StyleLabel(style) == Label("STYLE_", 0, style)
StyleKey(style) == FooterKey("STYLE_" \o style, 0)

\* manip._construct_metadata_block(layer_metadata)
LayerMetadataBlock(layer_name, bitmap_addr) ==
    Block(Label("", 0, ""), [k \in {"LAYERNAME"} |-> layer_name],
          [k \in {"LAYERBITMAP"} |-> bitmap_addr], "")

\* a layer whose metadata is given the bitmap's address as looked up before
\* the bitmap is appended
PackLayerAddressBeforeAppend(builder, page, page_number, layer) ==
    IF layer.name = NoneVal THEN builder
    ELSE IF layer.name = "BGLAYER"
    THEN append(builder, LayerLabel(page_number, layer.name, "metadata"),
                LayerMetadataBlock(layer.name,
                    get_block_address(builder, StyleLabel(page.style))))
    ELSE append(append(builder,
                       LayerLabel(page_number, layer.name, "LAYERBITMAP"),
                       RawBlock(layer.content)),
                LayerLabel(page_number, layer.name, "metadata"),
                LayerMetadataBlock(layer.name,
                    get_block_address(builder,
                        LayerLabel(page_number, layer.name, "LAYERBITMAP"))))

\* note_processor.py:403-423, one layer of the page
PackLayer(builder, page, page_number, layer) ==
    IF layer.name = NoneVal THEN builder
    ELSE IF layer.name = "BGLAYER"
    THEN append(builder, LayerLabel(page_number, layer.name, "metadata"),
                LayerMetadataBlock(layer.name,
                    get_block_address(builder, StyleLabel(page.style))))
    ELSE LET b1 == append(builder,
                          LayerLabel(page_number, layer.name, "LAYERBITMAP"),
                          RawBlock(layer.content))
         IN  append(b1, LayerLabel(page_number, layer.name, "metadata"),
                    LayerMetadataBlock(layer.name,
                        get_block_address(b1,
                            LayerLabel(page_number, layer.name, "LAYERBITMAP"))))

RECURSIVE PackLayersFrom(_, _, _, _)
PackLayersFrom(builder, page, page_number, n) ==
    IF n > Len(page.layers) THEN builder
    ELSE PackLayersFrom(PackLayer(builder, page, page_number, page.layers[n]),
                        page, page_number, n + 1)

\* manip._construct_metadata_block(page_metadata): the template name is the
\* one textual field of a page's metadata, the others are addresses and flags
PageMetadataBlock(style, metadata) ==
    Block(Label("", 0, ""), [k \in {"PAGESTYLE"} |-> style], metadata, "")

\* note_processor.py:445-463: the page's own metadata
PageMetadata(builder, page, page_number) ==
    LET recogn_text_addr ==
            get_block_address(builder, PageLabel(page_number, "RECOGNTEXT"))
        recogn_file_addr ==
            get_block_address(builder, PageLabel(page_number, "RECOGNFILE"))
        m0 == page.metadata
    IN  [k \in DOMAIN m0 \cup {LayerNames[n] : n \in 1..Len(LayerNames)}
                \cup {"TOTALPATH"}
                \cup (IF recogn_text_addr > 0
                      THEN {"RECOGNTEXT", "RECOGNSTATUS"} ELSE {})
                \cup (IF recogn_file_addr > 0 THEN {"RECOGNFILE"} ELSE {}) |->
            IF \E n \in 1..Len(LayerNames) : k = LayerNames[n]
            THEN get_block_address(builder, LayerLabel(page_number, k, "metadata"))
            ELSE IF k = "TOTALPATH"
            THEN get_block_address(builder, PageLabel(page_number, "TOTALPATH"))
            ELSE IF k = "RECOGNTEXT" /\ recogn_text_addr > 0 THEN recogn_text_addr
            ELSE IF k = "RECOGNSTATUS" /\ recogn_text_addr > 0 THEN 1
            ELSE IF k = "RECOGNFILE" /\ recogn_file_addr > 0 THEN recogn_file_addr
            ELSE m0[k]]

\* one iteration of the loop of pack_pages_with_recognition, page i (0-based)
PackOnePage(builder, nb, i) ==
    LET page_number == i + 1
        original_page == nb.pages[i + 1]
        b1 == PackLayersFrom(builder, original_page, page_number, 1)
        b2 == IF original_page.totalpath # NoneVal
              THEN append(b1, PageLabel(page_number, "TOTALPATH"),
                          RawBlock(original_page.totalpath))
              ELSE b1
        recogn_text == original_page.recogn_text
        recogn_file == original_page.recogn_file
        b3 == IF HasRecognText(recogn_text)
              THEN append(b2, PageLabel(page_number, "RECOGNTEXT"),
                          RawBlock(recogn_text))
              ELSE b2
        b4 == IF recogn_file # NoneVal /\ recogn_file # ""
              THEN append(b3, PageLabel(page_number, "RECOGNFILE"),
                          RawBlock(recogn_file))
              ELSE b3
    IN  append(b4, PageLabel(page_number, "metadata"),
               PageMetadataBlock(original_page.style,
                   PageMetadata(b4, original_page, page_number)))

RECURSIVE PackPagesFrom(_, _, _)
PackPagesFrom(builder, nb, i) ==
    IF i >= Len(nb.pages) THEN builder
    ELSE PackPagesFrom(PackOnePage(builder, nb, i), nb, i + 1)

pack_pages_with_recognition(builder, nb) ==
    PackPagesFrom(builder, nb, 0)

\* manip._pack_cover
pack_cover(builder, nb) ==
    IF nb.cover # NoneVal THEN append(builder, CoverLabel, RawBlock(nb.cover))
    ELSE builder

\* manip._pack_keywords, _pack_titles and _pack_links: each mark of the
\* given kind appends its content and then its metadata; two marks at the
\* same place of a page have the same id, hence the same labels
RECURSIVE PackMarksFrom(_, _, _, _)
PackMarksFrom(builder, nb, base, i) ==
    IF i > Len(nb.marks) THEN builder
    ELSE IF nb.marks[i].base # base THEN PackMarksFrom(builder, nb, base, i + 1)
    ELSE LET mark == nb.marks[i]
             b1 == append(builder, Label(base, mark.id, "BITMAP"),
                          RawBlock(mark.content))
             b2 == append(b1, Label(base, mark.id, "metadata"),
                          IntMetadataBlock([k \in {"BITMAP"} |->
                              get_block_address(b1, Label(base, mark.id, "BITMAP"))]))
         IN  PackMarksFrom(b2, nb, base, i + 1)

pack_keywords(builder, nb) == PackMarksFrom(builder, nb, "KEYWORD_", 1)
pack_titles(builder, nb) == PackMarksFrom(builder, nb, "TITLE_", 1)
pack_links(builder, nb) == PackMarksFrom(builder, nb, "LINKO_", 1)

\* manip._pack_backgrounds: the bitmap of each style template is appended
\* once, the first time a page uses it
RECURSIVE PackBackgroundsFrom(_, _, _)
PackBackgroundsFrom(builder, nb, i) ==
    IF i > Len(nb.pages) THEN builder
    ELSE LET page == nb.pages[i]
             bg == page.layers[Len(LayerNames)]
         IN  PackBackgroundsFrom(
                 IF get_block_address(builder, StyleLabel(page.style)) = 0
                    /\ bg.name # NoneVal
                 THEN append(builder, StyleLabel(page.style), RawBlock(bg.content))
                 ELSE builder,
                 nb, i + 1)

pack_backgrounds(builder, nb) == PackBackgroundsFrom(builder, nb, 1)

\* the footer rebuilt from scratch, as manip._pack_footer does: nothing copied
PreservedFooterKeysNone(original_footer) == {}

\* the extra fields of the original footer copied into the new one
PreservedFooterKeys(original_footer) ==
    {k \in DOMAIN original_footer : k = FooterKey("DIRTY", 0)}

\* every title, keyword and link entry is the label's first address
MarkAddressFirstOnly(builder, label) ==
    PyInt(get_block_address(builder, label))

\* note_processor.py:50-74: the single address, or the list of all of them
MarkAddress(builder, label) ==
    LET address_list == get_duplicate_block_address_list(builder, label)
    IN  IF Cardinality(address_list) = 1
        THEN PyInt(CHOOSE a \in address_list : TRUE)
        ELSE PyList(address_list)

\* note_processor.py:36-92
pack_footer_preserving_extras(builder, nb) ==
    LET original_footer == nb.footer
        page_labels == {l \in get_labels(builder) :
                            l.base = "PAGE" /\ l.part = "metadata"}
        mark_labels == {l \in get_labels(builder) :
                            l.base \in MarkBases /\ l.part = "metadata"}
        keep == PreservedFooterKeys(original_footer)
        style_labels == {l \in get_labels(builder) : l.base = "STYLE_"}
        cover_address == get_block_address(builder, CoverLabel)
        keys == {FooterKey("FILE_FEATURE", 0),
                 FooterKey("COVER_", IF cover_address = 0 THEN 0 ELSE 2)}
                \cup {FooterKey("PAGE", l.n) : l \in page_labels}
                \cup {FooterKey(l.base, l.n) : l \in mark_labels}
                \cup {StyleKey(l.part) : l \in style_labels}
                \cup keep
        metadata_footer ==
            [k \in keys |->
                IF k \in keep THEN original_footer[k]
                ELSE IF k[1] = "FILE_FEATURE"
                     THEN get_block_address(builder, Label("__header__", 0, ""))
                ELSE IF k[1] = "PAGE"
                     THEN get_block_address(builder, Label("PAGE", k[2], "metadata"))
                ELSE IF k[1] \in MarkBases
                     THEN MarkAddress(builder, Label(k[1], k[2], "metadata"))
                ELSE IF k[1] = "COVER_" THEN cover_address
                ELSE IF \E l \in style_labels : k = StyleKey(l.part)
                     THEN get_block_address(builder,
                              CHOOSE l \in style_labels : k = StyleKey(l.part))
                ELSE 0]
    IN  append(builder, Label("__footer__", 0, ""),
               IntMetadataBlock(metadata_footer))

\* the one element of a set of one element
Only(singleton) == CHOOSE x \in singleton : TRUE

\* note_processor.py:521-539: the pack steps in their fixed order and build();
\* each step is given the builder its predecessor left
BuildBytes(nb) ==
    LET b1 == append(NewBuilder, Label("__type__", 0, ""), RawBlock("note"))
        b2 == append(b1, Label("__signature__", 0, ""),
                     RawBlock(nb.signature))
        b3 == append(b2, Label("__header__", 0, ""),
                     StrMetadataBlock(nb.header))
        b3c == {pack_cover(b3, nb)}
        b3k == {pack_keywords(b, nb) : b \in b3c}
        b3t == {pack_titles(b, nb) : b \in b3k}
        b3l == {pack_links(b, nb) : b \in b3t}
        b3s == {pack_backgrounds(b, nb) : b \in b3l}
        b4 == {pack_pages_with_recognition(b, nb) : b \in b3s}
        b5 == {pack_footer_preserving_extras(b, nb) : b \in b4}
        b6 == {append(b, Label("__tail__", 0, ""), RawBlock("tail")) :
                  b \in b5}
    IN  Only({append(b, Label("__footer_address__", 0, ""),
                     IntMetadataBlock([a \in {"address"} |->
                         get_block_address(b, Label("__footer__", 0, ""))])) :
                 b \in b6})

-----------------------------------------------------------------------------
(* sn.load_notebook / SupernoteXParser.parse_stream on a complete file     *)

BlockContent(bytes, address) ==
    IF address = 0 THEN NoneVal ELSE bytes[address].raw

ParseLayer(bytes, address) ==
    IF address = 0 THEN [name |-> NoneVal, content |-> NoneVal]
    ELSE [name |-> bytes[address].strs["LAYERNAME"],
          content |-> BlockContent(bytes, bytes[address].ints["LAYERBITMAP"])]

ParsePage(bytes, address) ==
    LET metadata == bytes[address].ints
    IN  [recogn_text |-> BlockContent(bytes, DictGet(metadata, "RECOGNTEXT", 0)),
         recogn_file |-> BlockContent(bytes, DictGet(metadata, "RECOGNFILE", 0)),
         totalpath |-> BlockContent(bytes, DictGet(metadata, "TOTALPATH", 0)),
         layers |-> [n \in 1..Len(LayerNames) |->
                        ParseLayer(bytes, DictGet(metadata, LayerNames[n], 0))],
         style |-> bytes[address].strs["PAGESTYLE"],
         metadata |-> metadata]

\* the numbers of a set in ascending order
RECURSIVE Ascending(_)
Ascending(numbers) ==
    IF numbers = {} THEN <<>>
    ELSE LET least == CHOOSE a \in numbers : \A b \in numbers : a <= b
         IN  <<least>> \o Ascending(numbers \ {least})

\* the titles, keywords and links the footer points at, in file order
ParseMarks(bytes, footer) ==
    LET addresses ==
            UNION {IF footer[k].type = "list" THEN footer[k].items
                   ELSE {footer[k].int} :
                       k \in {x \in DOMAIN footer : x[1] \in MarkBases}}
        in_order == Ascending(addresses)
    IN  [n \in 1..Len(in_order) |->
            [base |-> bytes[in_order[n]].label.base,
             id |-> bytes[in_order[n]].label.n,
             content |-> BlockContent(bytes, bytes[in_order[n]].ints["BITMAP"])]]

ParseBytes(bytes) ==
    LET footer == bytes[bytes[Len(bytes)].ints["address"]].ints
        count == Cardinality({k \in DOMAIN footer : k[1] = "PAGE"})
    IN  [signature |-> bytes[2].raw,
         header |-> bytes[footer[FooterKey("FILE_FEATURE", 0)]].strs,
         pages |-> [n \in 1..count |-> ParsePage(bytes, footer[FooterKey("PAGE", n)])],
         marks |-> ParseMarks(bytes, footer),
         cover |-> BlockContent(bytes, DictGet(footer, FooterKey("COVER_", 2), 0)),
         footer |-> footer]

-----------------------------------------------------------------------------
(* The file the device left on disk: the same blocks in the device's own   *)
(* layout (page metadata ahead of its recognition block), so its addresses *)
(* differ from those of a rebuilt file.                                    *)

\* what the device wrote for one page: desc is
\*   [text, status, totalpath, style]
DevicePageMetadata(blocks, desc, i, text_addr) ==
    [k \in {LayerNames[n] : n \in 1..Len(LayerNames)}
           \cup {"TOTALPATH", "RECOGNTEXT", "RECOGNSTATUS", "RECOGNFILE"} |->
        IF \E n \in 1..Len(LayerNames) : k = LayerNames[n]
        THEN get_block_address(blocks, LayerLabel(i, k, "metadata"))
        ELSE IF k = "TOTALPATH"
        THEN get_block_address(blocks, PageLabel(i, "TOTALPATH"))
        ELSE IF k = "RECOGNTEXT"
        THEN (IF desc.text = NoneVal THEN 0 ELSE text_addr)
        ELSE IF k = "RECOGNSTATUS" THEN desc.status
        ELSE 0]

\* the layers the device wrote: a main layer, one extra layer, the
\* background; LAYER2 and LAYER3 are unused
DeviceLayers(desc, i) ==
    [n \in 1..Len(LayerNames) |->
        IF LayerNames[n] = "MAINLAYER"
        THEN [name |-> "MAINLAYER", content |-> "main" \o ToString(i)]
        ELSE IF LayerNames[n] = "LAYER1"
        THEN [name |-> "LAYER1", content |-> "layer1" \o ToString(i)]
        ELSE IF LayerNames[n] = "BGLAYER"
        THEN [name |-> "BGLAYER", content |-> "bg_" \o desc.style]
        ELSE [name |-> NoneVal, content |-> NoneVal]]

\* one address as an int, several as a list
MarkAddressesOf(addresses) ==
    IF Cardinality(addresses) = 1
    THEN PyInt(CHOOSE a \in addresses : TRUE)
    ELSE PyList(addresses)

RECURSIVE DeviceStyles(_, _, _)
DeviceStyles(blocks, descs, i) ==
    IF i > Len(descs) THEN blocks
    ELSE DeviceStyles(
             IF get_block_address(blocks, StyleLabel(descs[i].style)) = 0
             THEN append(blocks, StyleLabel(descs[i].style),
                         RawBlock("bg_" \o descs[i].style))
             ELSE blocks,
             descs, i + 1)

\* the device writes a layer's metadata ahead of its bitmap
RECURSIVE DeviceLayerBlocks(_, _, _, _)
DeviceLayerBlocks(blocks, desc, i, n) ==
    IF n > Len(LayerNames) THEN blocks
    ELSE LET layer == DeviceLayers(desc, i)[n]
             next ==
                 IF layer.name = NoneVal THEN blocks
                 ELSE IF layer.name = "BGLAYER"
                 THEN append(blocks, LayerLabel(i, layer.name, "metadata"),
                          LayerMetadataBlock(layer.name,
                              get_block_address(blocks, StyleLabel(desc.style))))
                 ELSE append(
                          append(blocks, LayerLabel(i, layer.name, "metadata"),
                              LayerMetadataBlock(layer.name, Len(blocks) + 2)),
                          LayerLabel(i, layer.name, "LAYERBITMAP"),
                          RawBlock(layer.content))
         IN  DeviceLayerBlocks(next, desc, i, n + 1)

\* the stroke path of page i, when it has one
DevicePath(blocks, desc, i) ==
    IF desc.totalpath
    THEN append(blocks, PageLabel(i, "TOTALPATH"),
                RawBlock("path" \o ToString(i)))
    ELSE blocks

\* the page's metadata, pointing at the recognition block that follows it
DeviceMeta(blocks, desc, i) ==
    append(blocks, PageLabel(i, "metadata"),
           PageMetadataBlock(desc.style,
               DevicePageMetadata(blocks, desc, i, Len(blocks) + 2)))

DeviceText(blocks, desc, i) ==
    IF desc.text = NoneVal THEN blocks
    ELSE append(blocks, PageLabel(i, "RECOGNTEXT"), RawBlock(desc.text))

RECURSIVE DevicePages(_, _, _)
DevicePages(blocks, descs, i) ==
    IF i > Len(descs) THEN blocks
    ELSE DevicePages(
             DeviceText(
                 DeviceMeta(
                     DevicePath(DeviceLayerBlocks(blocks, descs[i], i, 1),
                                descs[i], i),
                     descs[i], i),
                 descs[i], i),
             descs, i + 1)

\* the device writes its titles, keywords and links behind the pages,
\* each one's metadata ahead of its content
RECURSIVE DeviceMarks(_, _, _)
DeviceMarks(blocks, marks, i) ==
    IF i > Len(marks) THEN blocks
    ELSE DeviceMarks(
             append(append(blocks, Label(marks[i].base, marks[i].id, "metadata"),
                           IntMetadataBlock([k \in {"BITMAP"} |-> Len(blocks) + 2])),
                    Label(marks[i].base, marks[i].id, "BITMAP"),
                    RawBlock(marks[i].content)),
             marks, i + 1)

DeviceCover(blocks, cover) ==
    IF cover = NoneVal THEN blocks
    ELSE append(blocks, CoverLabel, RawBlock(cover))

\* the addresses of the metadata blocks a footer key stands for
DeviceMetadataAt(blocks, k) ==
    {a \in 1..Len(blocks) : blocks[a].label = Label(k[1], k[2], "metadata")}

\* the footer the device writes behind the blocks
DeviceFooter(blocks, descs, extras, marks, cover) ==
    LET styles == {descs[n].style : n \in 1..Len(descs)}
        keys == {FooterKey("FILE_FEATURE", 0),
                 FooterKey("COVER_", IF cover = NoneVal THEN 0 ELSE 2)}
                \cup {FooterKey("PAGE", n) : n \in 1..Len(descs)}
                \cup {FooterKey(marks[n].base, marks[n].id) : n \in 1..Len(marks)}
                \cup {StyleKey(st) : st \in styles}
                \cup DOMAIN extras
    IN  [k \in keys |->
            IF k \in DOMAIN extras THEN extras[k]
            ELSE IF k[1] = "FILE_FEATURE" THEN 3
            ELSE IF k[1] \in MarkBases
                 THEN MarkAddressesOf(DeviceMetadataAt(blocks, k))
            ELSE IF k = FooterKey("COVER_", 2) THEN Len(blocks)
            ELSE IF k[1] = "PAGE"
                 THEN get_block_address(blocks, PageLabel(k[2], "metadata"))
            ELSE IF \E st \in styles : k = StyleKey(st)
                 THEN get_block_address(blocks,
                          StyleLabel(CHOOSE st \in styles : k = StyleKey(st)))
            ELSE 0]

\* footer, tail and the footer's address behind the blocks
DeviceClose(blocks, footer) ==
    append(append(append(blocks, Label("__footer__", 0, ""),
                         IntMetadataBlock(footer)),
                  Label("__tail__", 0, ""), RawBlock("tail")),
           Label("__footer_address__", 0, ""),
           IntMetadataBlock([a \in {"address"} |-> Len(blocks) + 1]))

DeviceFinish(blocks, descs, extras, marks, cover) ==
    DeviceClose(blocks, DeviceFooter(blocks, descs, extras, marks, cover))

\* a device file with titles, keywords or links and, maybe, a cover
DeviceFileWithMarks(signature, header, descs, extras, marks, cover) ==
    DeviceFinish(
        DeviceCover(
            DeviceMarks(
                DevicePages(
                    DeviceStyles(
                        append(append(append(NewBuilder,
                                   Label("__type__", 0, ""), RawBlock("note")),
                               Label("__signature__", 0, ""),
                               RawBlock(signature)),
                            Label("__header__", 0, ""),
                            StrMetadataBlock(header)),
                        descs, 1),
                    descs, 1),
                marks, 1),
            cover),
        descs, extras, marks, cover)

\* a device file with no title, keyword, link or cover
DeviceFile(signature, header, descs, extras) ==
    DeviceFileWithMarks(signature, header, descs, extras, <<>>, NoneVal)

\* pages as the device leaves them: recognised or not, with the status flag
\* that goes with it, a stroke path, the built-in template
PlainPages ==
    {[text |-> t, status |-> IF t = NoneVal THEN 0 ELSE 1,
      totalpath |-> TRUE, style |-> StyleWhite] :
        t \in {NoneVal, ExistingPayload}}

\* headers a device file may carry
DeviceHeaders ==
    {[k \in {"APPLY_EQUIPMENT"} \cup ks |->
        IF k = "APPLY_EQUIPMENT" THEN "N5"
        ELSE IF k = "FILE_RECOGN_TYPE" THEN t ELSE l] :
        ks \in SUBSET {"FILE_RECOGN_TYPE", "FILE_RECOGN_LANGUAGE"},
        t \in {"0", "1"}, l \in {"en_US", "none"}}

\* fields of the footer that are not block addresses: the resume-page flag
\* DIRTY and one more field the device may keep there
DirtyKey == FooterKey("DIRTY", 0)
ExtraKey == FooterKey("DEVICE_EXTRA", 0)

DeviceFooterExtras ==
    {[k \in ks |-> IF k = DirtyKey THEN d ELSE 7] :
        ks \in SUBSET {DirtyKey, ExtraKey}, d \in {0, 3}}

DeviceFilesWith(headers, footer_extras, page_kinds) ==
    {DeviceFile(sig, h, descs, extras) :
        sig \in {LatestSignature, OlderSignature},
        h \in headers,
        descs \in UNION {[1..n -> page_kinds] : n \in 1..MaxPages},
        extras \in footer_extras}

\* every device file of the bounds
DeviceFiles == DeviceFilesWith(DeviceHeaders, DeviceFooterExtras, PlainPages)

\* the files inject_ocr_results is run on: every page layout and signature,
\* with a bare header or one carrying both recognition flags, and a bare
\* footer or one carrying both extra fields
InjectHeaders ==
    {h \in DeviceHeaders :
        \/ DOMAIN h = {"APPLY_EQUIPMENT"}
        \/ /\ DOMAIN h = {"APPLY_EQUIPMENT", "FILE_RECOGN_TYPE", "FILE_RECOGN_LANGUAGE"}
           /\ h["FILE_RECOGN_TYPE"] = "0"
           /\ h["FILE_RECOGN_LANGUAGE"] = "none"}

InjectFooterExtras ==
    {e \in DeviceFooterExtras :
        \/ DOMAIN e = {}
        \/ DOMAIN e = {DirtyKey, ExtraKey} /\ e[DirtyKey] = 3}

InjectFiles == DeviceFilesWith(InjectHeaders, InjectFooterExtras, PlainPages)

-----------------------------------------------------------------------------
(* inject_ocr_results(note_path, page_results, backup_dir, recogn_type)    *)

ReturnedNothing == [type |-> "none", int |-> 0]

\* the times of the target file when the call starts, and the moments a
\* write to it may happen at
InitialTimes == [atime |-> 20, mtime |-> 10]
Now == {InitialTimes.mtime + 1, InitialTimes.atime + 10}
NoStat == [atime |-> 0, mtime |-> 0]

\* writing to a file moves its modification time, not its access time
Modified(t, now) == [t EXCEPT !.mtime = now]

\* shutil.copy2 gave the backup the times the target had, and gives them
\* back to the target on restore
BackupTimes == InitialTimes

\* the variables of the two-call model and of the converter model, at rest
\* get_existing_ocr_text not called
ReadIdle == asked_page = 0

\* the variables of the processing model, at rest
RunIdle ==
    /\ note = <<>>
    /\ db_file = <<>>
    /\ db_pages = {}
    /\ write_to_note = FALSE
    /\ run = 0
    /\ step = "idle"
    /\ at_page = 0
    /\ results = {}
    /\ tally = <<>>
    /\ log = <<>>

CallsIdle ==
    /\ files = <<>>
    /\ backups = <<>>
    /\ clock = 0
    /\ call = <<>>
    /\ serial = FALSE

LinesIdle ==
    /\ text_blocks = <<>>
    /\ lines = <<>>
    /\ elements = <<>>
    /\ full_text = <<>>
    /\ stage = "idle"

\* the variables of the single-call model, at rest
InjectIdle ==
    /\ pc = "idle"
    /\ backup_dir = TRUE
    /\ recogn_type = "keep"
    /\ page_results = {}
    /\ pending = {}
    /\ orig = <<>>
    /\ disk = NoFile
    /\ backup = NoFile
    /\ notebook = NoNotebook
    /\ loaded = NoNotebook
    /\ reconstructed = NoBytes
    /\ warnings = {}
    /\ exc = "none"
    /\ writes = {}
    /\ returned = ReturnedNothing
    /\ times = InitialTimes
    /\ original_stat = NoStat

RecognTypes == {"keep", "0", "1", "bogus", "2"}

\* the settings inject_ocr_results is run with: the caller's default and one
\* that is not valid (every setting is exercised by SpecReconstruct)
InjectRecognTypes == {"keep", "bogus"}

Init ==
    /\ pc = "backup"
    /\ backup_dir \in BOOLEAN
    /\ recogn_type \in InjectRecognTypes
    /\ page_results \in {ks \in SUBSET PageKeys : Cardinality(ks) <= MaxEntries}
    /\ pending = page_results
    /\ orig \in InjectFiles
    /\ disk = FullFile(orig)
    /\ backup = NoFile
    /\ notebook = NoNotebook
    /\ loaded = NoNotebook
    /\ reconstructed = NoBytes
    /\ warnings = {}
    /\ exc = "none"
    /\ writes = {}
    /\ returned = ReturnedNothing
    /\ times = InitialTimes
    /\ original_stat = NoStat
    /\ CallsIdle
    /\ LinesIdle
    /\ ReadIdle
    /\ RunIdle

\* the backup step goes on without having copied the file
BackupCopyOmitted ==
    /\ pc = "backup"
    /\ backup_dir
    /\ pc' = "load"
    /\ UNCHANGED <<backup_dir, recogn_type, page_results, pending, orig, disk,
                   backup, notebook, loaded, reconstructed, warnings, exc,
                   writes>>
    /\ UNCHANGED <<returned, times, original_stat>>
    /\ UNCHANGED <<call_vars, line_vars, read_vars, run_vars>>

\* note_processor.py:571-576, shutil.copy2 completed
BackupCopy ==
    /\ pc = "backup"
    /\ backup_dir
    /\ backup' = disk
    /\ pc' = "load"
    /\ UNCHANGED <<backup_dir, recogn_type, page_results, pending, orig, disk,
                   notebook, loaded, reconstructed, warnings, exc, writes>>
    /\ UNCHANGED <<returned, times, original_stat>>
    /\ UNCHANGED <<call_vars, line_vars, read_vars, run_vars>>

\* shutil.copy2 to the backup path fails: raised ahead of the try block
BackupCopyFails ==
    /\ pc = "backup"
    /\ backup_dir
    /\ backup' \in {NoFile, EmptyFile, PrefixOf(disk.data)}
    /\ exc' = "OSError"
    /\ pc' = "raised"
    /\ UNCHANGED <<backup_dir, recogn_type, page_results, pending, orig, disk,
                   notebook, loaded, reconstructed, warnings, writes>>
    /\ UNCHANGED <<returned, times, original_stat>>
    /\ UNCHANGED <<call_vars, line_vars, read_vars, run_vars>>

\* backup_dir is None
BackupSkipped ==
    /\ pc = "backup"
    /\ ~backup_dir
    /\ pc' = "load"
    /\ UNCHANGED <<backup_dir, recogn_type, page_results, pending, orig, disk,
                   backup, notebook, loaded, reconstructed, warnings, exc,
                   writes>>
    /\ UNCHANGED <<returned, times, original_stat>>
    /\ UNCHANGED <<call_vars, line_vars, read_vars, run_vars>>

\* note_processor.py:579
LoadNotebook ==
    /\ pc = "load"
    /\ disk.kind = "full"
    /\ notebook' = ParseBytes(disk.data)
    /\ loaded' = notebook'
    /\ pc' = "loop"
    /\ UNCHANGED <<backup_dir, recogn_type, page_results, pending, orig, disk,
                   backup, reconstructed, warnings, exc, writes>>
    /\ UNCHANGED <<returned, times, original_stat>>
    /\ UNCHANGED <<call_vars, line_vars, read_vars, run_vars>>

\* the file cannot be read: raised ahead of the try block
LoadNotebookFails ==
    /\ pc = "load"
    /\ exc' = "OSError"
    /\ pc' = "raised"
    /\ UNCHANGED <<backup_dir, recogn_type, page_results, pending, orig, disk,
                   backup, notebook, loaded, reconstructed, warnings, writes>>
    /\ UNCHANGED <<returned, times, original_stat>>
    /\ UNCHANGED <<call_vars, line_vars, read_vars, run_vars>>

\* Python list index of notebook.pages[page_num]: 0 when it raises IndexError
PageSlot(page_num, count) ==
    IF page_num >= 0 /\ page_num < count THEN page_num + 1
    ELSE IF page_num < 0 /\ count + page_num >= 0 THEN count + page_num + 1
    ELSE 0

\* the range test off by one
OutOfRangeOffByOne(page_num, count) == page_num > count

\* the range test of note_processor.py:583
OutOfRange(page_num, count) == page_num >= count

\* note_processor.py:583-585: log and continue
LoopSkipPage ==
    /\ pc = "loop"
    /\ \E page_num \in pending :
        /\ OutOfRange(page_num, Len(notebook.pages))
        /\ warnings' = warnings \cup {"page_out_of_range"}
        /\ pending' = pending \ {page_num}
    /\ UNCHANGED <<pc, backup_dir, recogn_type, page_results, orig, disk,
                   backup, notebook, loaded, reconstructed, exc, writes>>
    /\ UNCHANGED <<returned, times, original_stat>>
    /\ UNCHANGED <<call_vars, line_vars, read_vars, run_vars>>

\* note_processor.py:588-592: page.set_recogn_text(recogn_data)
LoopSetRecognText ==
    /\ pc = "loop"
    /\ \E page_num \in pending :
        /\ ~OutOfRange(page_num, Len(notebook.pages))
        /\ PageSlot(page_num, Len(notebook.pages)) > 0
        /\ notebook' = [notebook EXCEPT
              !.pages[PageSlot(page_num, Len(notebook.pages))].recogn_text =
                  PayloadOf(page_num)]
        /\ pending' = pending \ {page_num}
    /\ UNCHANGED <<pc, backup_dir, recogn_type, page_results, orig, disk,
                   backup, loaded, reconstructed, warnings, exc, writes>>
    /\ UNCHANGED <<returned, times, original_stat>>
    /\ UNCHANGED <<call_vars, line_vars, read_vars, run_vars>>

\* the IndexError handled as if the loop stood inside the try block
LoopIndexErrorCaught ==
    /\ pc = "loop"
    /\ \E page_num \in pending :
        /\ ~OutOfRange(page_num, Len(notebook.pages))
        /\ PageSlot(page_num, Len(notebook.pages)) = 0
        /\ pending' = pending \ {page_num}
    /\ exc' = "IndexError"
    /\ pc' = "except"
    /\ UNCHANGED <<backup_dir, recogn_type, page_results, orig, disk, backup,
                   notebook, loaded, reconstructed, warnings, writes>>
    /\ UNCHANGED <<returned, times, original_stat>>
    /\ UNCHANGED <<call_vars, line_vars, read_vars, run_vars>>

\* note_processor.py:591: notebook.pages[page_num] raises IndexError, ahead
\* of the try block
LoopIndexError ==
    /\ pc = "loop"
    /\ \E page_num \in pending :
        /\ ~OutOfRange(page_num, Len(notebook.pages))
        /\ PageSlot(page_num, Len(notebook.pages)) = 0
        /\ pending' = pending \ {page_num}
    /\ exc' = "IndexError"
    /\ pc' = "raised"
    /\ UNCHANGED <<backup_dir, recogn_type, page_results, orig, disk, backup,
                   notebook, loaded, reconstructed, warnings, writes>>
    /\ UNCHANGED <<returned, times, original_stat>>
    /\ UNCHANGED <<call_vars, line_vars, read_vars, run_vars>>

\* note_processor.py:588: convert_ocr_to_supernote_format raises on the
\* page's OCR result (a text block whose bbox has not four numbers, or whose
\* text is not a string), ahead of the try block
LoopConvertFails ==
    /\ pc = "loop"
    /\ \E page_num \in pending :
        /\ ~OutOfRange(page_num, Len(notebook.pages))
        /\ pending' = pending \ {page_num}
    /\ exc' = "ConversionError"
    /\ pc' = "raised"
    /\ UNCHANGED <<backup_dir, recogn_type, page_results, orig, disk, backup,
                   notebook, loaded, reconstructed, warnings, writes>>
    /\ UNCHANGED <<returned, times, original_stat>>
    /\ UNCHANGED <<call_vars, line_vars, read_vars, run_vars>>

\* the for loop is exhausted: enter the try block
LoopDone ==
    /\ pc = "loop"
    /\ pending = {}
    /\ pc' = "signature"
    /\ UNCHANGED <<backup_dir, recogn_type, page_results, pending, orig, disk,
                   backup, notebook, loaded, reconstructed, warnings, exc,
                   writes>>
    /\ UNCHANGED <<returned, times, original_stat>>
    /\ UNCHANGED <<call_vars, line_vars, read_vars, run_vars>>

-----------------------------------------------------------------------------
(* reconstruct_with_recognition(notebook, recogn_type), called at line 597 *)

\* note_processor.py:494
SignatureSupported(nb) == nb.signature = LatestSignature

\* note_processor.py:503-505
SetRecognLanguage(header) ==
    IF DictGet(header, "FILE_RECOGN_LANGUAGE", Absent) # "en_US"
    THEN DictSet(header, "FILE_RECOGN_LANGUAGE", "en_US")
    ELSE header

\* "keep" writing the value it read back, default included
SetRecognTypeKeepWritesBack(header, rtype) ==
    LET current_type == DictGet(header, "FILE_RECOGN_TYPE", "1")
    IN  IF rtype = "keep" THEN DictSet(header, "FILE_RECOGN_TYPE", current_type)
        ELSE IF rtype \in {"0", "1"}
             THEN IF current_type # rtype
                  THEN DictSet(header, "FILE_RECOGN_TYPE", rtype)
                  ELSE header
        ELSE DictSet(header, "FILE_RECOGN_TYPE", "1")

\* an invalid value only logged, the header left as it is
SetRecognTypeInvalidIgnored(header, rtype) ==
    LET current_type == DictGet(header, "FILE_RECOGN_TYPE", "1")
    IN  IF rtype \in {"0", "1"} /\ current_type # rtype
        THEN DictSet(header, "FILE_RECOGN_TYPE", rtype)
        ELSE header

\* note_processor.py:510-519
SetRecognType(header, rtype) ==
    LET current_type == DictGet(header, "FILE_RECOGN_TYPE", "1")
    IN  IF rtype = "keep" THEN header
        ELSE IF rtype \in {"0", "1"}
             THEN IF current_type # rtype
                  THEN DictSet(header, "FILE_RECOGN_TYPE", rtype)
                  ELSE header
        ELSE DictSet(header, "FILE_RECOGN_TYPE", "1")

\* the logger.warning of note_processor.py:518
RecognTypeWarnings(rtype) ==
    IF rtype \notin {"keep", "0", "1"} THEN {"invalid_recogn_type"} ELSE {}

\* what SupernoteXParser.parse_stream needs to find in a buffer
Parseable(bytes) ==
    /\ Len(bytes) >= 3
    /\ bytes[Len(bytes)].label = Label("__footer_address__", 0, "")
    /\ "address" \in DOMAIN bytes[Len(bytes)].ints
    /\ bytes[Len(bytes)].ints["address"] \in 1..Len(bytes)
    /\ bytes[bytes[Len(bytes)].ints["address"]].label = Label("__footer__", 0, "")
    /\ bytes[2].raw \in {LatestSignature, OlderSignature}

\* a build that went wrong: the buffer lacks its trailing footer pointer
CorruptedBuild(bytes) == SubSeq(bytes, 1, Len(bytes) - 1)

\* note_processor.py:494-498: raise ValueError, caught at line 618
SignatureRejected ==
    /\ pc = "signature"
    /\ ~SignatureSupported(notebook)
    /\ exc' = "ValueError"
    /\ pc' = "except"
    /\ UNCHANGED <<backup_dir, recogn_type, page_results, pending, orig, disk,
                   backup, notebook, loaded, reconstructed, warnings, writes>>
    /\ UNCHANGED <<returned, times, original_stat>>
    /\ UNCHANGED <<call_vars, line_vars, read_vars, run_vars>>

SignatureAccepted ==
    /\ pc = "signature"
    /\ SignatureSupported(notebook)
    /\ pc' = "header"
    /\ UNCHANGED <<backup_dir, recogn_type, page_results, pending, orig, disk,
                   backup, notebook, loaded, reconstructed, warnings, exc,
                   writes>>
    /\ UNCHANGED <<returned, times, original_stat>>
    /\ UNCHANGED <<call_vars, line_vars, read_vars, run_vars>>

\* note_processor.py:501-519 (the parsed header is always a dict)
SetHeaderFlags ==
    /\ pc = "header"
    /\ notebook' = [notebook EXCEPT
          !.header = SetRecognType(SetRecognLanguage(notebook.header), recogn_type)]
    /\ warnings' = warnings \cup RecognTypeWarnings(recogn_type)
    /\ pc' = "build"
    /\ UNCHANGED <<backup_dir, recogn_type, page_results, pending, orig, disk,
                   backup, loaded, reconstructed, exc, writes>>
    /\ UNCHANGED <<returned, times, original_stat>>
    /\ UNCHANGED <<call_vars, line_vars, read_vars, run_vars>>

\* note_processor.py:521-539
Build ==
    /\ pc = "build"
    /\ reconstructed' = BuildBytes(notebook)
    /\ pc' = "validate"
    /\ UNCHANGED <<backup_dir, recogn_type, page_results, pending, orig, disk,
                   backup, notebook, loaded, warnings, exc, writes>>
    /\ UNCHANGED <<returned, times, original_stat>>
    /\ UNCHANGED <<call_vars, line_vars, read_vars, run_vars>>

\* the same step with a corrupted intermediate build
BuildCorrupted ==
    /\ pc = "build"
    /\ reconstructed' = CorruptedBuild(BuildBytes(notebook))
    /\ pc' = "validate"
    /\ UNCHANGED <<backup_dir, recogn_type, page_results, pending, orig, disk,
                   backup, notebook, loaded, warnings, exc, writes>>
    /\ UNCHANGED <<returned, times, original_stat>>
    /\ UNCHANGED <<call_vars, line_vars, read_vars, run_vars>>

\* validation left out: every buffer is accepted
ValidationSkipped(bytes) == TRUE

\* note_processor.py:542-549
ValidationPasses(bytes) == Parseable(bytes)

Validated ==
    /\ pc = "validate"
    /\ ValidationPasses(reconstructed)
    /\ pc' = "stat"
    /\ UNCHANGED <<backup_dir, recogn_type, page_results, pending, orig, disk,
                   backup, notebook, loaded, reconstructed, warnings, exc,
                   writes>>
    /\ UNCHANGED <<returned, times, original_stat>>
    /\ UNCHANGED <<call_vars, line_vars, read_vars, run_vars>>

ValidationFails ==
    /\ pc = "validate"
    /\ ~ValidationPasses(reconstructed)
    /\ exc' = "ValueError"
    /\ pc' = "except"
    /\ UNCHANGED <<backup_dir, recogn_type, page_results, pending, orig, disk,
                   backup, notebook, loaded, reconstructed, warnings, writes>>
    /\ UNCHANGED <<returned, times, original_stat>>
    /\ UNCHANGED <<call_vars, line_vars, read_vars, run_vars>>

-----------------------------------------------------------------------------
(* The final write, note_processor.py:600-616 *)

\* keys of page_results that pass the range test of the loop
InRangeEntries ==
    {k \in page_results : ~OutOfRange(k, Len(loaded.pages))}

\* the return value is the number of pages overwritten
SuccessResultCount(updated) == PyInt(updated)

\* note_processor.py:616, return True
SuccessResult(updated) == PyBool(TRUE)

\* os.utime is given the times read by stat, unchanged
NewTimesUnchanged(original) == original

\* note_processor.py:611-612: (original_atime, original_mtime + 1)
NewTimes(original) ==
    [atime |-> original.atime, mtime |-> original.mtime + 1]

\* note_path.stat()
StatTarget ==
    /\ pc = "stat"
    /\ pc' = "open"
    /\ UNCHANGED <<backup_dir, recogn_type, page_results, pending, orig, disk,
                   backup, notebook, loaded, reconstructed, warnings, exc,
                   writes>>
    /\ original_stat' = times
    /\ UNCHANGED <<returned, times>>
    /\ UNCHANGED <<call_vars, line_vars, read_vars, run_vars>>

StatTargetFails ==
    /\ pc = "stat"
    /\ exc' = "OSError"
    /\ pc' = "except"
    /\ UNCHANGED <<backup_dir, recogn_type, page_results, pending, orig, disk,
                   backup, notebook, loaded, reconstructed, warnings, writes>>
    /\ UNCHANGED <<returned, times, original_stat>>
    /\ UNCHANGED <<call_vars, line_vars, read_vars, run_vars>>

\* what open(note_path, 'wb') leaves in the file before anything is written
OpenForWriting(content) == EmptyFile

\* open(note_path, 'wb') truncates the file
OpenTarget ==
    /\ pc = "open"
    /\ disk' = OpenForWriting(disk)
    /\ writes' = writes \cup {"open_wb"}
    /\ pc' = "write"
    /\ UNCHANGED <<backup_dir, recogn_type, page_results, pending, orig,
                   backup, notebook, loaded, reconstructed, warnings, exc>>
    /\ \E now \in Now : times' = Modified(times, now)
    /\ UNCHANGED <<returned, original_stat>>
    /\ UNCHANGED <<call_vars, line_vars, read_vars, run_vars>>

\* open raises (the file is left as it was)
OpenTargetFails ==
    /\ pc = "open"
    /\ exc' = "OSError"
    /\ pc' = "except"
    /\ UNCHANGED <<backup_dir, recogn_type, page_results, pending, orig, disk,
                   backup, notebook, loaded, reconstructed, warnings, writes>>
    /\ UNCHANGED <<returned, times, original_stat>>
    /\ UNCHANGED <<call_vars, line_vars, read_vars, run_vars>>

\* f.write(reconstructed) and the close of the with block
WriteTarget ==
    /\ pc = "write"
    /\ disk' = FullFile(reconstructed)
    /\ writes' = writes \cup {"write"}
    /\ pc' = "utime"
    /\ UNCHANGED <<backup_dir, recogn_type, page_results, pending, orig,
                   backup, notebook, loaded, reconstructed, warnings, exc>>
    /\ \E now \in Now : now >= times.mtime /\ times' = Modified(times, now)
    /\ UNCHANGED <<returned, original_stat>>
    /\ UNCHANGED <<call_vars, line_vars, read_vars, run_vars>>

\* f.write raises partway (disk full, I/O error)
WriteTargetFails ==
    /\ pc = "write"
    /\ disk' \in {EmptyFile, PrefixOf(reconstructed)}
    /\ writes' = writes \cup {"write"}
    /\ exc' = "OSError"
    /\ pc' = "except"
    /\ UNCHANGED <<backup_dir, recogn_type, page_results, pending, orig,
                   backup, notebook, loaded, reconstructed, warnings>>
    /\ \E now \in Now : now >= times.mtime /\ times' = Modified(times, now)
    /\ UNCHANGED <<returned, original_stat>>
    /\ UNCHANGED <<call_vars, line_vars, read_vars, run_vars>>

\* os.utime(note_path, (original_atime, new_mtime)); return True
SetTimes ==
    /\ pc = "utime"
    /\ writes' = writes \cup {"utime"}
    /\ pc' = "done"
    /\ UNCHANGED <<backup_dir, recogn_type, page_results, pending, orig, disk,
                   backup, notebook, loaded, reconstructed, warnings, exc>>
    /\ times' = NewTimes(original_stat)
    /\ returned' = SuccessResult(Cardinality(InRangeEntries))
    /\ UNCHANGED original_stat
    /\ UNCHANGED <<call_vars, line_vars, read_vars, run_vars>>

SetTimesFails ==
    /\ pc = "utime"
    /\ exc' = "OSError"
    /\ pc' = "except"
    /\ UNCHANGED <<backup_dir, recogn_type, page_results, pending, orig, disk,
                   backup, notebook, loaded, reconstructed, warnings, writes>>
    /\ UNCHANGED <<returned, times, original_stat>>
    /\ UNCHANGED <<call_vars, line_vars, read_vars, run_vars>>

-----------------------------------------------------------------------------
(* The except clause, note_processor.py:618-626 *)

\* the test of note_processor.py:622
RestoreWanted == backup_dir /\ backup # NoFile

\* no backup to restore: re-raise
Reraise ==
    /\ pc = "except"
    /\ ~RestoreWanted
    /\ pc' = "raised"
    /\ UNCHANGED <<backup_dir, recogn_type, page_results, pending, orig, disk,
                   backup, notebook, loaded, reconstructed, warnings, exc,
                   writes>>
    /\ UNCHANGED <<returned, times, original_stat>>
    /\ UNCHANGED <<call_vars, line_vars, read_vars, run_vars>>

\* shutil.copy2(backup_path, note_path) opens the target for writing
RestoreOpen ==
    /\ pc = "except"
    /\ RestoreWanted
    /\ disk' = OpenForWriting(disk)
    /\ writes' = writes \cup {"restore"}
    /\ pc' = "restore"
    /\ UNCHANGED <<backup_dir, recogn_type, page_results, pending, orig,
                   backup, notebook, loaded, reconstructed, warnings, exc>>
    /\ \E now \in Now : now >= times.mtime /\ times' = Modified(times, now)
    /\ UNCHANGED <<returned, original_stat>>
    /\ UNCHANGED <<call_vars, line_vars, read_vars, run_vars>>

\* the copy completes; the original exception is re-raised
RestoreCopy ==
    /\ pc = "restore"
    /\ disk' = backup
    /\ pc' = "raised"
    /\ UNCHANGED <<backup_dir, recogn_type, page_results, pending, orig,
                   backup, notebook, loaded, reconstructed, warnings, exc,
                   writes>>
    /\ times' = BackupTimes
    /\ UNCHANGED <<returned, original_stat>>
    /\ UNCHANGED <<call_vars, line_vars, read_vars, run_vars>>

\* the copy fails partway: its own error reaches the caller
RestoreCopyFails ==
    /\ pc = "restore"
    /\ disk' \in {EmptyFile, PrefixOf(backup.data)}
    /\ exc' = "OSError"
    /\ pc' = "raised"
    /\ UNCHANGED <<backup_dir, recogn_type, page_results, pending, orig,
                   backup, notebook, loaded, reconstructed, warnings, writes>>
    /\ UNCHANGED <<returned, times, original_stat>>
    /\ UNCHANGED <<call_vars, line_vars, read_vars, run_vars>>

-----------------------------------------------------------------------------

Next ==
    \/ BackupCopy \/ BackupCopyFails \/ BackupSkipped
    \/ LoadNotebook \/ LoadNotebookFails
    \/ LoopSkipPage \/ LoopSetRecognText \/ LoopConvertFails
    \/ LoopIndexError \/ LoopDone
    \/ SignatureRejected \/ SignatureAccepted
    \/ SetHeaderFlags
    \/ Build \/ BuildCorrupted
    \/ Validated \/ ValidationFails
    \/ StatTarget \/ StatTargetFails
    \/ OpenTarget \/ OpenTargetFails
    \/ WriteTarget \/ WriteTargetFails
    \/ SetTimes \/ SetTimesFails
    \/ Reraise \/ RestoreOpen \/ RestoreCopy \/ RestoreCopyFails

Spec == Init /\ [][Next]_vars

-----------------------------------------------------------------------------
(* reconstruct_with_recognition on its own: entered with any notebook that *)
(* load_notebook returns for a device file, any subset of its pages        *)
(* overwritten by set_recogn_text, and any recogn_type.                    *)

WithInjected(nb, slots) ==
    [nb EXCEPT !.pages = [i \in 1..Len(nb.pages) |->
        IF i \in slots
        THEN [nb.pages[i] EXCEPT !.recogn_text = PayloadOf(i - 1)]
        ELSE nb.pages[i]]]

InitReconstruct ==
    /\ pc = "signature"
    /\ backup_dir = FALSE
    /\ recogn_type \in RecognTypes
    /\ page_results = {}
    /\ pending = {}
    /\ orig \in DeviceFiles
    /\ disk = FullFile(orig)
    /\ backup = NoFile
    /\ loaded = ParseBytes(orig)
    /\ \E slots \in SUBSET (1..MaxPages) :
          /\ slots \subseteq 1..Len(loaded.pages)
          /\ notebook = WithInjected(loaded, slots)
    /\ reconstructed = NoBytes
    /\ warnings = {}
    /\ exc = "none"
    /\ writes = {}
    /\ returned = ReturnedNothing
    /\ times = InitialTimes
    /\ original_stat = NoStat
    /\ CallsIdle
    /\ LinesIdle
    /\ ReadIdle
    /\ RunIdle

NextReconstruct ==
    \/ SignatureRejected \/ SignatureAccepted
    \/ SetHeaderFlags
    \/ Build \/ BuildCorrupted
    \/ Validated \/ ValidationFails

SpecReconstruct == InitReconstruct /\ [][NextReconstruct]_vars

-----------------------------------------------------------------------------
(* The page packer on its own: reconstruct_with_recognition entered with a *)
(* notebook whose pages vary in what the device recorded for them (text,   *)
(* status flag, stroke path, template) and in the recognition text each    *)
(* page holds when the build starts.                                       *)

\* pages of every recorded state: the status flag set or clear whether or
\* not a recognition block is there, with or without a stroke path, on the
\* built-in or on a user template
PackPageKinds ==
    {[text |-> t, status |-> st, totalpath |-> tp.path, style |-> tp.style] :
        t \in {NoneVal, ExistingPayload}, st \in {0, 1},
        tp \in {[path |-> TRUE, style |-> StyleWhite],
                [path |-> FALSE, style |-> StyleUser]}}

BareHeader == [k \in {"APPLY_EQUIPMENT"} |-> "N5"]

\* files of the latest signature with pages of every kind, and the plain
\* files of the older signature
PackFiles ==
    {DeviceFile(LatestSignature, BareHeader, descs, EmptyDict) :
        descs \in UNION {[1..n -> PackPageKinds] : n \in 1..MaxPages}}
    \cup {DeviceFile(OlderSignature, BareHeader, descs, EmptyDict) :
        descs \in UNION {[1..n -> PlainPages] : n \in 1..MaxPages}}

\* what page.set_recogn_text may have been given before the build: nothing
\* (the page keeps what was parsed), a payload, the empty string, or the
\* "no value" marker
KeepText == "<keep>"
TextsFor(i) == {KeepText, PayloadOf(i - 1), "", NoValueMarker}

WithTexts(nb, texts) ==
    [nb EXCEPT !.pages = [i \in 1..Len(nb.pages) |->
        IF texts[i] = KeepText THEN nb.pages[i]
        ELSE [nb.pages[i] EXCEPT !.recogn_text = texts[i]]]]

InitPack ==
    /\ pc = "signature"
    /\ backup_dir = FALSE
    /\ recogn_type = "keep"
    /\ page_results = {}
    /\ pending = {}
    /\ orig \in PackFiles
    /\ disk = FullFile(orig)
    /\ backup = NoFile
    /\ loaded = ParseBytes(orig)
    /\ \E texts \in UNION {[1..n -> UNION {TextsFor(i) : i \in 1..MaxPages}] :
                              n \in 1..MaxPages} :
          /\ DOMAIN texts = 1..Len(loaded.pages)
          /\ \A i \in DOMAIN texts : texts[i] \in TextsFor(i)
          /\ notebook = WithTexts(loaded, texts)
    /\ reconstructed = NoBytes
    /\ warnings = {}
    /\ exc = "none"
    /\ writes = {}
    /\ returned = ReturnedNothing
    /\ times = InitialTimes
    /\ original_stat = NoStat
    /\ CallsIdle
    /\ LinesIdle
    /\ ReadIdle
    /\ RunIdle

SpecPack == InitPack /\ [][NextReconstruct]_vars

-----------------------------------------------------------------------------
(* The footer packer on its own: reconstruct_with_recognition entered with *)
(* a notebook that carries titles, keywords and links, some of them at the *)
(* same place of a page, and maybe a cover.                                *)

\* a title, keyword or link and the id its page and position give it
MarkKinds ==
    {[base |-> "TITLE_", id |-> i] : i \in {10010, 10020}}
    \cup {[base |-> b, id |-> 10010] : b \in {"KEYWORD_", "LINKO_"}}

MarksOf(kinds) ==
    [n \in 1..Len(kinds) |->
        [base |-> kinds[n].base, id |-> kinds[n].id,
         content |-> "mark" \o ToString(n)]]

\* files of the latest signature with marks of every kind, with or without
\* a cover, the resume-page flag in the footer; and the plain files of the
\* older signature
FooterFiles ==
    {DeviceFileWithMarks(LatestSignature, BareHeader, descs,
                         [k \in {DirtyKey} |-> 3], MarksOf(kinds), cover) :
        descs \in UNION {[1..n -> PlainPages] : n \in 1..MaxPages},
        kinds \in UNION {[1..n -> MarkKinds] : n \in 0..MaxMarks},
        cover \in {NoneVal, "cover"}}
    \cup {DeviceFile(OlderSignature, BareHeader, descs, EmptyDict) :
        descs \in UNION {[1..n -> PlainPages] : n \in 1..MaxPages}}

InitFooter ==
    /\ pc = "signature"
    /\ backup_dir = FALSE
    /\ recogn_type = "keep"
    /\ page_results = {}
    /\ pending = {}
    /\ orig \in FooterFiles
    /\ disk = FullFile(orig)
    /\ backup = NoFile
    /\ loaded = ParseBytes(orig)
    /\ notebook = loaded
    /\ reconstructed = NoBytes
    /\ warnings = {}
    /\ exc = "none"
    /\ writes = {}
    /\ returned = ReturnedNothing
    /\ times = InitialTimes
    /\ original_stat = NoStat
    /\ CallsIdle
    /\ LinesIdle
    /\ ReadIdle
    /\ RunIdle

SpecFooter == InitFooter /\ [][NextReconstruct]_vars

-----------------------------------------------------------------------------
(* Two calls of inject_ocr_results that share one backup directory: run    *)
(* concurrently, or the second when the first has ended.  File contents    *)
(* are opaque here; what matters is which path each step reads and writes. *)

Calls == {1, 2}

\* target paths: two notes of the same name in different folders, and a
\* note of another name
Paths ==
    {[dir |-> "Note", stem |-> "Meeting"],
     [dir |-> "Work", stem |-> "Meeting"],
     [dir |-> "Note", stem |-> "Todo"]}

\* what a target file holds before any call, and what a rebuild makes of
\* the bytes it loaded
OriginalOf(note_path) == note_path.dir \o "/" \o note_path.stem
Rebuilt(bytes) == bytes \o "+ocr"

\* note_processor.py:573-574: the backup is named by the target's stem and
\* the wall clock to the second; the target's folder is not part of it
BackupPath(note_path, now) == [stem |-> note_path.stem, timestamp |-> now]

BackupPaths ==
    {BackupPath(note_path, now) : note_path \in Paths, now \in 0..MaxTicks}

NoPath == [stem |-> "", timestamp |-> 0 - 1]

InitCalls ==
    /\ files = [note_path \in Paths |-> FullFile(OriginalOf(note_path))]
    /\ backups = [b \in BackupPaths |-> NoFile]
    /\ clock = 0
    /\ serial \in BOOLEAN
    /\ \E targets \in [Calls -> Paths] :
          call = [c \in Calls |->
                    [pc |-> "backup", note_path |-> targets[c],
                     backup_path |-> NoPath, backed_up |-> FALSE,
                     notebook |-> "", reconstructed |-> "",
                     exc |-> "none", restored |-> FALSE]]
    /\ InjectIdle
    /\ LinesIdle
    /\ ReadIdle
    /\ RunIdle

Ended(c) == call[c].pc \in {"done", "raised"}

\* call c may take a step
MayRun(c) == serial => \A d \in Calls : d < c => Ended(d)

\* note_processor.py:571-576
CallBackup(c) ==
    /\ MayRun(c)
    /\ call[c].pc = "backup"
    /\ LET backup_path == BackupPath(call[c].note_path, clock)
       IN  /\ backups' = [backups EXCEPT ![backup_path] = files[call[c].note_path]]
           /\ call' = [call EXCEPT ![c].backup_path = backup_path,
                                   ![c].backed_up = TRUE,
                                   ![c].pc = "load"]
    /\ UNCHANGED <<files, clock, serial, inject_vars, line_vars, read_vars, run_vars>>

\* note_processor.py:579-593: load_notebook and the loop; a file that is not
\* a whole notebook does not load
CallLoad(c) ==
    /\ MayRun(c)
    /\ call[c].pc = "load"
    /\ LET content == files[call[c].note_path]
       IN  IF content.kind = "full"
           THEN call' = [call EXCEPT ![c].notebook = content.data,
                                     ![c].pc = "reconstruct"]
           ELSE call' = [call EXCEPT ![c].exc = "LoadError",
                                     ![c].pc = "raised"]
    /\ UNCHANGED <<files, backups, clock, serial, inject_vars, line_vars, read_vars, run_vars>>

\* note_processor.py:597, reconstruct_with_recognition returns valid bytes
CallReconstruct(c) ==
    /\ MayRun(c)
    /\ call[c].pc = "reconstruct"
    /\ call' = [call EXCEPT ![c].reconstructed = Rebuilt(call[c].notebook),
                            ![c].pc = "open"]
    /\ UNCHANGED <<files, backups, clock, serial, inject_vars, line_vars, read_vars, run_vars>>

\* reconstruct_with_recognition raises (signature, validation)
CallReconstructFails(c) ==
    /\ MayRun(c)
    /\ call[c].pc = "reconstruct"
    /\ call' = [call EXCEPT ![c].exc = "ValueError", ![c].pc = "except"]
    /\ UNCHANGED <<files, backups, clock, serial, inject_vars, line_vars, read_vars, run_vars>>

\* note_processor.py:600-605: stat, then open(note_path, 'wb')
CallOpen(c) ==
    /\ MayRun(c)
    /\ call[c].pc = "open"
    /\ files' = [files EXCEPT ![call[c].note_path] = OpenForWriting(@)]
    /\ call' = [call EXCEPT ![c].pc = "write"]
    /\ UNCHANGED <<backups, clock, serial, inject_vars, line_vars, read_vars, run_vars>>

\* note_processor.py:606-616: f.write, os.utime, return True
CallWrite(c) ==
    /\ MayRun(c)
    /\ call[c].pc = "write"
    /\ files' = [files EXCEPT
                    ![call[c].note_path] = FullFile(call[c].reconstructed)]
    /\ call' = [call EXCEPT ![c].pc = "done"]
    /\ UNCHANGED <<backups, clock, serial, inject_vars, line_vars, read_vars, run_vars>>

\* f.write raises partway
CallWriteFails(c) ==
    /\ MayRun(c)
    /\ call[c].pc = "write"
    /\ \E left \in {EmptyFile, PrefixOf(call[c].reconstructed)} :
          files' = [files EXCEPT ![call[c].note_path] = left]
    /\ call' = [call EXCEPT ![c].exc = "OSError", ![c].pc = "except"]
    /\ UNCHANGED <<backups, clock, serial, inject_vars, line_vars, read_vars, run_vars>>

\* note_processor.py:618-626: restore from backup_path if it exists, re-raise
CallExcept(c) ==
    /\ MayRun(c)
    /\ call[c].pc = "except"
    /\ IF backups[call[c].backup_path] # NoFile
       THEN /\ files' = [files EXCEPT
                            ![call[c].note_path] = backups[call[c].backup_path]]
            /\ call' = [call EXCEPT ![c].restored = TRUE, ![c].pc = "raised"]
       ELSE /\ call' = [call EXCEPT ![c].pc = "raised"]
            /\ UNCHANGED files
    /\ UNCHANGED <<backups, clock, serial, inject_vars, line_vars, read_vars, run_vars>>

\* a second passes on the wall clock
Tick ==
    /\ clock < MaxTicks
    /\ clock' = clock + 1
    /\ UNCHANGED <<files, backups, call, serial, inject_vars, line_vars, read_vars, run_vars>>

NextCalls ==
    \/ \E c \in Calls :
          \/ CallBackup(c) \/ CallLoad(c)
          \/ CallReconstruct(c) \/ CallReconstructFails(c)
          \/ CallOpen(c) \/ CallWrite(c) \/ CallWriteFails(c)
          \/ CallExcept(c)
    \/ Tick

SpecCalls == InitCalls /\ [][NextCalls]_vars

-----------------------------------------------------------------------------
(* convert_ocr_to_supernote_format and _group_words_into_lines.  A text    *)
(* block is [text, bbox]: text a sequence of characters, bbox              *)
(* <<left, top, right, bottom>> in pixels.                                 *)

Whitespace == {" "}

\* str.strip()
RECURSIVE Strip(_)
Strip(text) ==
    IF text = <<>> THEN text
    ELSE IF Head(text) \in Whitespace THEN Strip(Tail(text))
    ELSE IF text[Len(text)] \in Whitespace
         THEN Strip(SubSeq(text, 1, Len(text) - 1))
    ELSE text

\* sep.join(parts)
RECURSIVE Join(_, _)
Join(parts, sep) ==
    IF parts = <<>> THEN <<>>
    ELSE IF Len(parts) = 1 THEN parts[1]
    ELSE parts[1] \o sep \o Join(Tail(parts), sep)

\* list.sort(key=lambda b: b.bbox[k]): ascending and stable
RECURSIVE SortByCoord(_, _)
SortByCoord(blocks, k) ==
    IF blocks = <<>> THEN <<>>
    ELSE LET x == blocks[Len(blocks)]
             rest == SortByCoord(SubSeq(blocks, 1, Len(blocks) - 1), k)
             NotAfter(e) == e.bbox[k] <= x.bbox[k]
             After(e) == e.bbox[k] > x.bbox[k]
         IN  SelectSeq(rest, NotAfter) \o <<x>> \o SelectSeq(rest, After)

\* the valid blocks left in the order they came
SortValidOmitted(valid_blocks) == valid_blocks

\* note_processor.py:265, valid_blocks.sort(key=lambda x: x[1])
SortValid(valid_blocks) == SortByCoord(valid_blocks, 2)

\* a line sorted by its top-Y
SortLineByTop(current_line) == SortByCoord(current_line, 2)

\* note_processor.py:281 and 292, current_line.sort(key=lambda b: b.bbox[0])
SortLine(current_line) == SortByCoord(current_line, 1)

RECURSIVE SumOfHeights(_)
SumOfHeights(valid_blocks) ==
    IF valid_blocks = <<>> THEN 0
    ELSE (valid_blocks[1].bbox[4] - valid_blocks[1].bbox[2])
         + SumOfHeights(Tail(valid_blocks))

Abs(v) == IF v < 0 THEN 0 - v ELSE v

\* note_processor.py:268-270 and 279: abs(y - current_y) > line_threshold,
\* with line_threshold = (sum(heights) / len(heights)) * 0.5 and current_y
\* the fraction num / den
ExceedsThreshold(y, current_y, heights_sum, count) ==
    2 * count * Abs(y * current_y.den - current_y.num)
        > heights_sum * current_y.den

\* note_processor.py:278-289, the loop from the i-th valid block on
RECURSIVE GroupFrom(_, _, _, _, _)
GroupFrom(valid_blocks, i, done, current_line, current_y) ==
    IF i > Len(valid_blocks) THEN Append(done, SortLine(current_line))
    ELSE LET block == valid_blocks[i]
             y == block.bbox[2]
         IN  IF ExceedsThreshold(y, current_y, SumOfHeights(valid_blocks),
                                 Len(valid_blocks))
             THEN GroupFrom(valid_blocks, i + 1,
                            Append(done, SortLine(current_line)),
                            <<block>>, [num |-> y, den |-> 1])
             ELSE GroupFrom(valid_blocks, i + 1, done,
                            Append(current_line, block),
                            [num |-> current_y.num + y * current_y.den,
                             den |-> 2 * current_y.den])

HasText(block) == Strip(block.text) # <<>>

\* the grouping with the blank blocks kept
GroupWithoutFilter(blocks) ==
    LET valid_blocks == SortValid(blocks)
    IN  IF valid_blocks = <<>> THEN <<>>
        ELSE GroupFrom(valid_blocks, 2, <<>>, <<valid_blocks[1]>>,
                       [num |-> valid_blocks[1].bbox[2], den |-> 1])

\* note_processor.py:247-297
group_words_into_lines(blocks) ==
    LET valid_blocks == SortValid(SelectSeq(blocks, HasText))
    IN  IF valid_blocks = <<>> THEN <<>>
        ELSE GroupFrom(valid_blocks, 2, <<>>, <<valid_blocks[1]>>,
                       [num |-> valid_blocks[1].bbox[2], den |-> 1])

\* SUPERNOTE_SCALE_FACTOR = 11.9, in tenths
SUPERNOTE_SCALE_FACTOR_TENTHS == 119

\* round(float(v) / SUPERNOTE_SCALE_FACTOR, 2), in hundredths
Scaled(v) ==
    (2000 * v + SUPERNOTE_SCALE_FACTOR_TENTHS)
        \div (2 * SUPERNOTE_SCALE_FACTOR_TENTHS)

RawMarker == [type |-> "Raw Content"]
Spacer == [label |-> <<" ">>]

\* note_processor.py:346-360
Glyph(block) ==
    [label |-> Strip(block.text),
     box |-> [x |-> Scaled(block.bbox[1]),
              y |-> Scaled(block.bbox[2]),
              width |-> Scaled(block.bbox[3] - block.bbox[1]),
              height |-> Scaled(block.bbox[4] - block.bbox[2])]]

\* a Spacer appended after every Glyph, the last one too
RECURSIVE WordsSpacerAfterEach(_, _)
WordsSpacerAfterEach(line_blocks, i) ==
    IF i > Len(line_blocks) THEN <<>>
    ELSE IF ~HasText(line_blocks[i])
         THEN WordsSpacerAfterEach(line_blocks, i + 1)
    ELSE <<Glyph(line_blocks[i]), Spacer>>
         \o WordsSpacerAfterEach(line_blocks, i + 1)

\* note_processor.py:336-364, the words of one line from its i-th block on
RECURSIVE WordsFrom(_, _)
WordsFrom(line_blocks, i) ==
    IF i > Len(line_blocks) THEN <<>>
    ELSE IF ~HasText(line_blocks[i]) THEN WordsFrom(line_blocks, i + 1)
    ELSE <<Glyph(line_blocks[i])>>
         \o (IF i - 1 < Len(line_blocks) - 1 THEN <<Spacer>> ELSE <<>>)
         \o WordsFrom(line_blocks, i + 1)

\* line_text_parts of one line
LineTextParts(line_blocks) ==
    LET kept == SelectSeq(line_blocks, HasText)
    IN  [n \in 1..Len(kept) |-> Strip(kept[n].text)]

\* the payload starts as an empty list
InitialElementsEmpty == <<>>

\* note_processor.py:330
InitialElements == <<RawMarker>>

\* note_processor.py:333-373
RECURSIVE ElementsFrom(_, _)
ElementsFrom(all_lines, n) ==
    IF n > Len(all_lines) THEN <<>>
    ELSE LET words == WordsFrom(all_lines[n], 1)
         IN  (IF words # <<>>
              THEN <<[type |-> "Text",
                      label |-> Join(LineTextParts(all_lines[n]), <<" ">>),
                      words |-> words]>>
              ELSE <<>>)
             \o ElementsFrom(all_lines, n + 1)

\* line_texts, and full_text_with_breaks of note_processor.py:376
LineTexts(all_lines) ==
    LET kept == SelectSeq(all_lines, LAMBDA l : WordsFrom(l, 1) # <<>>)
    IN  [n \in 1..Len(kept) |-> Join(LineTextParts(kept[n]), <<" ">>)]

\* the text blocks an OCR result may hold: a word, a word with a leading
\* space, a blank; at the left or further right; on rows that touch, overlap
\* or lie far apart
BlockWords ==
    {[text |-> <<"a">>, left |-> 0],
     [text |-> <<" ", "b">>, left |-> 5],
     [text |-> <<"a">>, left |-> 5],
     [text |-> <<" ">>, left |-> 0]}

\* rows that overlap one another, and rows far from every other row
CloseRows ==
    {[top |-> 0, height |-> 2], [top |-> 1, height |-> 4],
     [top |-> 2, height |-> 2]}
FarRows == {[top |-> 10, height |-> 2], [top |-> 20, height |-> 4]}

BlockChoices ==
    {[text |-> w.text,
      bbox |-> <<w.left, r.top, w.left + 3, r.top + r.height>>] :
        w \in BlockWords, r \in CloseRows \cup FarRows}

InitLines ==
    /\ text_blocks \in UNION {[1..n -> BlockChoices] : n \in 0..MaxBlocks}
    /\ lines = <<>>
    /\ elements = <<>>
    /\ full_text = <<>>
    /\ stage = "start"
    /\ InjectIdle
    /\ CallsIdle
    /\ ReadIdle
    /\ RunIdle

\* note_processor.py:328
GroupLines ==
    /\ stage = "start"
    /\ lines' = group_words_into_lines(text_blocks)
    /\ stage' = "grouped"
    /\ UNCHANGED <<text_blocks, elements, full_text, inject_vars, call_vars, read_vars, run_vars>>

\* note_processor.py:330-388
EncodeLines ==
    /\ stage = "grouped"
    /\ elements' = InitialElements \o ElementsFrom(lines, 1)
    /\ full_text' = Join(LineTexts(lines), <<"\n">>)
    /\ stage' = "encoded"
    /\ UNCHANGED <<text_blocks, lines, inject_vars, call_vars, read_vars, run_vars>>

NextLines == GroupLines \/ EncodeLines

SpecLines == InitLines /\ [][NextLines]_vars

-----------------------------------------------------------------------------
(* Properties of inject_ocr_results, checked under Spec *)

\* validation has run on the built bytes and rejected them
ValidationFailed ==
    /\ reconstructed # NoBytes
    /\ ~Parseable(reconstructed)
    /\ pc # "validate"

\* the bytes were built and pass validation
BuiltValid == reconstructed # NoBytes /\ Parseable(reconstructed)

\* the four write operations the final write and the rollback perform
FinalWriteOps == {"open_wb", "write", "utime"}

\* C1 (as stated): whatever backup_dir is, once validation of the built bytes
\* has failed no write operation of any kind has been performed on the target
\* path and the target holds the original content.
C1_NoWriteOfAnyKind ==
    ValidationFailed => writes = {} /\ disk = FullFile(orig)

\* C1 (amended): once validation of the built bytes has failed, the built
\* bytes are never written: the final write (open, write, utime) is not
\* performed and the call does not return; without backup_dir no write
\* operation at all touches the target, which keeps the original content;
\* with backup_dir the only write operation on the target is the restore of
\* the backup, the target never holds anything but the original content or a
\* truncation of it, and when the validation error reaches the caller the
\* target holds the original content.
C1_FailedValidationWritesNothingNew ==
    ValidationFailed =>
        /\ writes \cap FinalWriteOps = {}
        /\ pc \in {"except", "restore", "raised"}
        /\ exc # "none"
        /\ ~backup_dir => writes = {} /\ disk = FullFile(orig)
        /\ disk.kind \in {"full", "prefix"} => disk.data = orig
        /\ (pc = "raised" /\ exc = "ValueError") => disk = FullFile(orig)

C1_Witness ==
    /\ ValidationFailed
    /\ backup_dir
    /\ pc = "raised"
    /\ exc = "ValueError"
    /\ writes = {"restore"}
    /\ disk = FullFile(orig)

\* C2: unless the rollback has rewritten it, the target path holds either the
\* complete original bytes or the complete validated rebuilt bytes, in every
\* state of the call (a crash can stop the call in any of them).
C2_OverwriteIsAtomic ==
    "restore" \notin writes =>
        \/ disk = FullFile(orig)
        \/ BuiltValid /\ disk = FullFile(reconstructed)

C4_RollbackOnlyFromBuiltOrValidated ==
    pc = "restore" =>
        /\ reconstructed # NoBytes
        /\ writes \cap FinalWriteOps = {}

\* the order of the steps of inject_ocr_results
StepOrder ==
    {<<"backup", "load">>, <<"load", "loop">>, <<"loop", "signature">>,
     <<"signature", "header">>, <<"header", "build">>,
     <<"build", "validate">>, <<"validate", "stat">>, <<"stat", "open">>,
     <<"open", "write">>, <<"write", "utime">>, <<"utime", "done">>}

\* the steps that stand inside the try block
TrySteps == {"signature", "header", "build", "validate", "stat", "open",
             "write", "utime"}

\* C4 (amended): the call advances only along backup, load, page loop,
\* signature check, header flags, build, validate, stat, open, write, utime,
\* done; the except clause is entered from a failing step of the try block
\* and from nowhere else (a signature rejection ahead of the build and a
\* failure of open, write or utime after the target was truncated or written
\* included), the backup is copied over the target only from the except
\* clause and only when a backup directory was supplied, and a failure of the
\* backup copy, of load_notebook or of the page loop raises without a
\* rollback.
C4_StepsAndRollback ==
    [][/\ pc' # pc =>
            \/ <<pc, pc'>> \in StepOrder
            \/ pc' = "except" /\ pc \in TrySteps
            \/ pc' = "restore" /\ pc = "except"
            \/ pc' = "raised" /\ pc \in {"backup", "load", "loop", "except",
                                          "restore"}
       /\ pc' = "restore" => backup_dir /\ backup = FullFile(orig)
       /\ pc \in {"done", "raised"} => pc' = pc
      ]_vars

C4_Witness ==
    /\ pc = "restore"
    /\ "write" \in writes
    /\ exc = "OSError"

\* C5: when the signature is not the supported one, at the moment the error
\* is raised no page's recognition text and no header flag of the in-memory
\* notebook has been changed, no bytes are built and the target is unwritten.
C5_RejectedBeforeAnyMutation ==
    (pc = "except" /\ notebook # NoNotebook /\ ~SignatureSupported(notebook)) =>
        /\ notebook = loaded
        /\ reconstructed = NoBytes
        /\ writes = {}
        /\ disk = FullFile(orig)

\* pages of the in-memory notebook that an entry of page_results names which
\* passed the range test
NamedSlots ==
    {PageSlot(k, Len(loaded.pages)) :
        k \in {x \in page_results \ pending : ~OutOfRange(x, Len(loaded.pages))}}

\* C6: handling an entry whose page index is >= the page count raises
\* nothing, changes no page and goes on with the remaining entries; a page
\* named by no entry that passed the range test keeps its recognition
\* payload, in memory and in the rebuilt file; the rebuilt file has the page
\* count of the input.
C6_OutOfRangeEntrySkipped ==
    /\ [][\A k \in pending :
            (pc = "loop" /\ k \notin pending' /\ k >= Len(notebook.pages)) =>
                /\ notebook' = notebook
                /\ pc' = "loop"
                /\ exc' = "none"
                /\ pending' = pending \ {k}
         ]_vars
    /\ [](notebook # NoNotebook =>
            /\ Len(notebook.pages) = Len(loaded.pages)
            /\ \A i \in 1..Len(loaded.pages) :
                  i \notin NamedSlots =>
                      notebook.pages[i].recogn_text = loaded.pages[i].recogn_text)
    /\ [](BuiltValid =>
            LET rebuilt == ParseBytes(reconstructed)
            IN  /\ Len(rebuilt.pages) = Len(loaded.pages)
                /\ \A i \in 1..Len(loaded.pages) :
                      i \notin NamedSlots =>
                          rebuilt.pages[i].recogn_text =
                              loaded.pages[i].recogn_text)

C6_Witness ==
    /\ pc = "done"
    /\ \E k \in page_results : k >= Len(loaded.pages)
    /\ \E k \in page_results : k >= 0 /\ k < Len(loaded.pages)
    /\ Len(loaded.pages) = MaxPages
    /\ \E i \in 1..Len(loaded.pages) :
          /\ i \notin NamedSlots
          /\ loaded.pages[i].recogn_text = ExistingPayload
    /\ "page_out_of_range" \in warnings

-----------------------------------------------------------------------------
(* Properties of reconstruct_with_recognition, checked under               *)
(* SpecReconstruct                                                         *)

OriginalFooter == ParseBytes(orig).footer
RebuiltFooter == ParseBytes(reconstructed).footer

OriginalHeader == ParseBytes(orig).header
RebuiltHeader == ParseBytes(reconstructed).header

\* C7: a DIRTY flag of the original footer is in the footer of the rebuilt
\* file with the same value, whatever pages were injected and whatever
\* recogn_type is; a footer without DIRTY gets none.
C7_DirtyPreserved ==
    BuiltValid =>
        /\ DirtyKey \in DOMAIN OriginalFooter =>
              /\ DirtyKey \in DOMAIN RebuiltFooter
              /\ RebuiltFooter[DirtyKey] = OriginalFooter[DirtyKey]
        /\ DirtyKey \notin DOMAIN OriginalFooter =>
              DirtyKey \notin DOMAIN RebuiltFooter

C7_Witness ==
    /\ BuiltValid
    /\ pc = "stat"
    /\ DirtyKey \in DOMAIN OriginalFooter
    /\ OriginalFooter[DirtyKey] = 3
    /\ RebuiltFooter[DirtyKey] = 3
    /\ notebook.pages # loaded.pages
    /\ recogn_type = "0"

\* C8: every field of the original footer that the builder does not
\* recompute from block addresses is in the rebuilt footer, value unchanged.
C8_EveryExtraFieldPreserved ==
    BuiltValid =>
        \A k \in DOMAIN OriginalFooter :
            k[1] \notin RecomputedBases =>
                /\ k \in DOMAIN RebuiltFooter
                /\ RebuiltFooter[k] = OriginalFooter[k]

\* C9: with recogn_type "keep" the header's FILE_RECOGN_TYPE entry, its
\* value or its absence, is the same in the notebook after the header step
\* and in the rebuilt file as in the original, also when
\* FILE_RECOGN_LANGUAGE is changed by the same call.
C9_KeepLeavesRecognType ==
    recogn_type = "keep" =>
        /\ DictGet(notebook.header, "FILE_RECOGN_TYPE", Absent) =
               DictGet(OriginalHeader, "FILE_RECOGN_TYPE", Absent)
        /\ BuiltValid =>
               DictGet(RebuiltHeader, "FILE_RECOGN_TYPE", Absent) =
                   DictGet(OriginalHeader, "FILE_RECOGN_TYPE", Absent)

C9_Witness ==
    /\ recogn_type = "keep"
    /\ pc = "stat"
    /\ "FILE_RECOGN_TYPE" \notin DOMAIN OriginalHeader
    /\ "FILE_RECOGN_TYPE" \notin DOMAIN RebuiltHeader
    /\ DictGet(OriginalHeader, "FILE_RECOGN_LANGUAGE", Absent) = "none"
    /\ RebuiltHeader["FILE_RECOGN_LANGUAGE"] = "en_US"

\* C10: for a recogn_type other than "keep", "0" and "1", on a notebook of
\* the supported signature, the header step raises nothing, a warning is
\* recorded and FILE_RECOGN_TYPE is "1" in the notebook and in the rebuilt
\* file, whatever it was; the only exception left is a failed validation.
C10_InvalidTypeFallsBackToOne ==
    (recogn_type \notin {"keep", "0", "1"} /\ SignatureSupported(notebook)) =>
        /\ pc = "header" => exc = "none"
        /\ pc \notin {"signature", "header"} =>
              /\ "invalid_recogn_type" \in warnings
              /\ DictGet(notebook.header, "FILE_RECOGN_TYPE", Absent) = "1"
        /\ BuiltValid =>
              /\ DictGet(RebuiltHeader, "FILE_RECOGN_TYPE", Absent) = "1"
              /\ exc = "none"
        /\ exc # "none" => ValidationFailed

C10_Witness ==
    /\ recogn_type = "bogus"
    /\ pc = "stat"
    /\ exc = "none"
    /\ DictGet(OriginalHeader, "FILE_RECOGN_TYPE", Absent) = "0"
    /\ RebuiltHeader["FILE_RECOGN_TYPE"] = "1"
    /\ "invalid_recogn_type" \in warnings


-----------------------------------------------------------------------------
(* Properties of the page packer, checked under SpecPack *)

\* the page-metadata block the build wrote for page i (1-based)
RebuiltPageMetadata(i) ==
    reconstructed[get_block_address(reconstructed, PageLabel(i, "metadata"))].ints

\* the build appended a recognition-text block for page i
RecognTextAppended(i) ==
    get_block_address(reconstructed, PageLabel(i, "RECOGNTEXT")) > 0

\* C11: in every page-metadata block written by the build the status flag
\* RECOGNSTATUS is set if and only if the page's recognition text is present,
\* non-empty and not the "no value" marker, which is if and only if a
\* recognition-text block was appended for the page; a page without text
\* never carries a set flag inherited from the original metadata.
C11_StatusSetIffTextPresent ==
    BuiltValid =>
        \A i \in 1..Len(notebook.pages) :
            /\ HasRecognText(notebook.pages[i].recogn_text) <=> RecognTextAppended(i)
            /\ (DictGet(RebuiltPageMetadata(i), "RECOGNSTATUS", 0) # 0)
                   <=> HasRecognText(notebook.pages[i].recogn_text)

\* what structural equality compares of a page: the five layers, the stroke
\* path and the recognition payload
PageStructure(page) ==
    [layers |-> page.layers, totalpath |-> page.totalpath,
     recogn_text |-> page.recogn_text]

StructureOf(nb) == [i \in 1..Len(nb.pages) |-> PageStructure(nb.pages[i])]

\* the build was given the parsed notebook as it is, no page overwritten
NothingInjected == notebook.pages = loaded.pages

\* C12: for a notebook of the latest signature, parsing the bytes built from
\* the parsed notebook with no injected page gives the same pages in the same
\* order, each with the same five layers, the same totalPath and the same
\* recognition payload as the parsed original, whatever the block addresses.
C12_RoundTripStructurallyEqual ==
    (BuiltValid /\ NothingInjected /\ loaded.signature = LatestSignature) =>
        StructureOf(ParseBytes(reconstructed)) = StructureOf(ParseBytes(orig))

C12_Witness ==
    /\ BuiltValid
    /\ NothingInjected
    /\ loaded.signature = LatestSignature
    /\ Len(loaded.pages) = MaxPages
    /\ loaded.pages[1].recogn_text = ExistingPayload
    /\ loaded.pages[1].totalpath = NoneVal
    /\ loaded.pages[1].style = StyleUser
    /\ loaded.pages[2].recogn_text = NoneVal
    /\ loaded.pages[2].totalpath # NoneVal
    /\ loaded.pages[2].layers[1].content # loaded.pages[1].layers[1].content
    /\ ParseBytes(reconstructed).pages[1].metadata # loaded.pages[1].metadata
    /\ StructureOf(ParseBytes(reconstructed)) = StructureOf(loaded)

-----------------------------------------------------------------------------
(* Return value, file times and per-page failures of inject_ocr_results,   *)
(* checked under Spec                                                      *)

\* C13 (as stated): on success the call returns the number of page_results
\* entries with an in-range page index, the pages actually overwritten.
C13_ReturnsCountOfUpdatedPages ==
    pc = "done" => returned = PyInt(Cardinality(InRangeEntries))

\* C13 (amended): on success the call returns True, whatever the number of
\* entries that were in range or skipped; it returns nothing on any other
\* path.
C13_ReturnsTrueOnSuccess ==
    /\ pc = "done" => returned = PyBool(TRUE)
    /\ pc # "done" => returned = ReturnedNothing

C13_Witness ==
    /\ pc = "done"
    /\ returned = PyBool(TRUE)
    /\ Cardinality(page_results) = MaxEntries
    /\ Cardinality(InRangeEntries) = MaxEntries - 1
    /\ "page_out_of_range" \in warnings

\* C14: after a successful call the target's access time is the one it had
\* just before the write and its modification time is the one it had just
\* before the write plus one second.
C14_TimesAfterSuccess ==
    /\ pc = "open" => original_stat = times
    /\ pc = "done" =>
          /\ times.atime = original_stat.atime
          /\ times.mtime = original_stat.mtime + 1

C14_Witness ==
    /\ pc = "done"
    /\ {"open_wb", "write", "utime"} \subseteq writes
    /\ disk = FullFile(reconstructed)
    /\ original_stat = InitialTimes
    /\ times = [atime |-> InitialTimes.atime, mtime |-> InitialTimes.mtime + 1]

\* failures that concern one page's recognition result
PerPageErrors == {"ConversionError", "IndexError"}

\* C17: a failure while converting or applying one page's recognition result
\* is isolated to that page: it does not abort the injection and is never
\* the failure the caller receives.
C17_PerPageProblemDoesNotAbort ==
    ~(pc = "raised" /\ exc \in PerPageErrors)

-----------------------------------------------------------------------------
(* Properties of calls sharing a backup directory, checked under SpecCalls *)

DifferentTargets == call[1].note_path # call[2].note_path

\* C15: two calls on two different target files with the same backup
\* directory never interfere, however their steps interleave: a target that
\* holds a whole file holds its own original or its own rebuilt content, a
\* call that returned left its own rebuilt content, and a call that rolled
\* back left its own file's original content.
C15_CallsOnDifferentFilesDoNotInterfere ==
    DifferentTargets =>
        \A c \in Calls :
            LET note_path == call[c].note_path
                own == OriginalOf(note_path)
            IN  /\ files[note_path].kind = "full" =>
                      files[note_path].data \in {own, Rebuilt(own)}
                /\ call[c].pc = "done" =>
                      files[note_path] = FullFile(Rebuilt(own))
                /\ (call[c].pc = "raised" /\ call[c].restored) =>
                      files[note_path] = FullFile(own)

\* C16: with attempts made one after the other on the same file, a backup
\* written by an earlier attempt is never overwritten by a later one: once
\* the first attempt has written its backup, the bytes the file had before
\* it are in the backup directory whatever attempts follow.
C16_FirstBackupStaysRecoverable ==
    (serial /\ ~DifferentTargets /\ call[1].backed_up) =>
        \E b \in BackupPaths :
            backups[b] = FullFile(OriginalOf(call[1].note_path))

-----------------------------------------------------------------------------
(* Properties of the converter, checked under SpecLines *)

\* the blocks of the input whose text is not blank, in input order
NonBlank == SelectSeq(text_blocks, HasText)

Occurrences(blocks, b) == Cardinality({i \in DOMAIN blocks : blocks[i] = b})

\* the same blocks, each as many times
SameBlocks(left, right) ==
    \A b \in BlockChoices : Occurrences(left, b) = Occurrences(right, b)

LeftToRight(line) ==
    \A i, j \in DOMAIN line : i < j => line[i].bbox[1] <= line[j].bbox[1]

Grouped == stage \in {"grouped", "encoded"}

\* C18: when the blocks with text all have the same top-Y (and there is
\* one at least), _group_words_into_lines returns exactly one line, which
\* holds every one of them, in ascending left-X order.
C18_SameTopGivesOneLine ==
    (/\ Grouped
     /\ NonBlank # <<>>
     /\ \A i \in DOMAIN NonBlank : NonBlank[i].bbox[2] = NonBlank[1].bbox[2]) =>
        /\ Len(lines) = 1
        /\ SameBlocks(lines[1], NonBlank)
        /\ LeftToRight(lines[1])

C18_Witness ==
    /\ Grouped
    /\ Len(text_blocks) = MaxBlocks
    /\ NonBlank = text_blocks
    /\ \A i \in DOMAIN text_blocks : text_blocks[i].bbox[2] = text_blocks[1].bbox[2]
    /\ text_blocks[1].bbox[1] > text_blocks[2].bbox[1]
    /\ Len(lines) = 1
    /\ lines[1] # text_blocks
    /\ LeftToRight(lines[1])

\* the vertical ranges of a and b lie more than the threshold (half the
\* average height of the blocks with text) apart
Separated(a, b) ==
    LET heights_sum == SumOfHeights(NonBlank)
        count == Len(NonBlank)
    IN  \/ 2 * count * (b.bbox[2] - a.bbox[4]) > heights_sum
        \/ 2 * count * (a.bbox[2] - b.bbox[4]) > heights_sum

PairwiseSeparated ==
    \A i, j \in DOMAIN NonBlank : i # j => Separated(NonBlank[i], NonBlank[j])

\* C19: when the vertical ranges of the blocks with text are pairwise more
\* than the threshold apart, _group_words_into_lines returns one line per
\* block, in ascending top-Y order.
C19_SeparatedBlocksGiveOneLineEach ==
    (Grouped /\ PairwiseSeparated) =>
        /\ Len(lines) = Len(NonBlank)
        /\ \A n \in DOMAIN lines : Len(lines[n]) = 1
        /\ SameBlocks([n \in DOMAIN lines |-> lines[n][1]], NonBlank)
        /\ \A m, n \in DOMAIN lines :
              m < n => lines[m][1].bbox[2] < lines[n][1].bbox[2]

C19_Witness ==
    /\ Grouped
    /\ PairwiseSeparated
    /\ Len(NonBlank) = Cardinality(FarRows) + 1
    /\ NonBlank[1].bbox[2] > NonBlank[2].bbox[2]
    /\ Len(lines) = Len(NonBlank)
    /\ lines[1][1] = NonBlank[2]

\* C20: the first element of the payload is the RawMarker and no other
\* element is; for an input with no text block, or only blank ones, the
\* payload is the RawMarker alone and the full text is empty.
C20_RawMarkerFirstAndOnlyFirst ==
    stage = "encoded" =>
        /\ Len(elements) >= 1
        /\ elements[1] = RawMarker
        /\ \A n \in DOMAIN elements : n > 1 => elements[n] # RawMarker
        /\ NonBlank = <<>> => elements = <<RawMarker>> /\ full_text = <<>>

C20_Witness ==
    /\ stage = "encoded"
    /\ Len(text_blocks) = MaxBlocks
    /\ NonBlank # <<>>
    /\ NonBlank # text_blocks
    /\ Len(lines) > 1
    /\ Len(elements) = Len(lines) + 1
    /\ elements[1] = RawMarker
    /\ elements[2].type = "Text"
    /\ full_text # <<>>

\* C21: every line group of n >= 1 members is encoded as one TextLine of
\* exactly 2n-1 words: a Glyph for each member, in the line's left-to-right
\* order and carrying the member's trimmed text, with a Spacer between each
\* two consecutive glyphs and none before the first or after the last; the
\* TextLine's label is the members' trimmed texts joined by single spaces
\* in that order.  A coordinate is divided by 11.9 and rounded to two
\* places (10 -> 0.84, 40 -> 3.36, 20 -> 1.68, 60 -> 5.04).
C21_GlyphsAlternateWithSpacers ==
    stage = "encoded" =>
        /\ Len(elements) = Len(lines) + 1
        /\ \A n \in DOMAIN lines :
              LET line == lines[n]
                  text_line == elements[n + 1]
              IN  /\ Len(line) >= 1
                  /\ LeftToRight(line)
                  /\ text_line.type = "Text"
                  /\ Len(text_line.words) = 2 * Len(line) - 1
                  /\ \A k \in DOMAIN line :
                        /\ "box" \in DOMAIN text_line.words[2 * k - 1]
                        /\ text_line.words[2 * k - 1].label = Strip(line[k].text)
                        /\ text_line.words[2 * k - 1].box.x * 2 * SUPERNOTE_SCALE_FACTOR_TENTHS
                              \in (2000 * line[k].bbox[1] - SUPERNOTE_SCALE_FACTOR_TENTHS)
                                  ..(2000 * line[k].bbox[1] + SUPERNOTE_SCALE_FACTOR_TENTHS)
                        /\ k < Len(line) => text_line.words[2 * k] = [label |-> <<" ">>]
                  /\ text_line.label
                        = Join([k \in DOMAIN line |-> Strip(line[k].text)], <<" ">>)
        /\ <<Scaled(10), Scaled(40), Scaled(20), Scaled(60)>> = <<84, 336, 168, 504>>

C21_Witness ==
    /\ stage = "encoded"
    /\ Len(lines) = 1
    /\ Len(lines[1]) = MaxBlocks
    /\ \E k \in DOMAIN lines[1] : lines[1][k].text # Strip(lines[1][k].text)
    /\ Len(elements[2].words) = 2 * MaxBlocks - 1
    /\ elements[2].words[2] = Spacer
    /\ elements[2].label = <<"a", " ", "b", " ", "a">>

\* the blocks of every returned line, one line after the other
RECURSIVE Flatten(_)
Flatten(all_lines) ==
    IF all_lines = <<>> THEN <<>>
    ELSE Head(all_lines) \o Flatten(Tail(all_lines))

\* C30: _group_words_into_lines partitions its input: every block with a
\* non-blank text is in exactly one returned line, exactly once; no block
\* whose text is blank after trimming is in any line; no returned line is
\* empty; the members of every line are in non-decreasing left-X order.
C30_LinesPartitionTheNonBlankBlocks ==
    Grouped =>
        /\ SameBlocks(Flatten(lines), NonBlank)
        /\ \A n \in DOMAIN lines :
              /\ lines[n] # <<>>
              /\ \A k \in DOMAIN lines[n] : Strip(lines[n][k].text) # <<>>
              /\ LeftToRight(lines[n])

C30_Witness ==
    /\ Grouped
    /\ Len(text_blocks) = MaxBlocks
    /\ Len(NonBlank) = MaxBlocks - 1
    /\ text_blocks[1] = text_blocks[MaxBlocks]
    /\ HasText(text_blocks[1])
    /\ Len(lines) = 1
    /\ Len(lines[1]) = MaxBlocks - 1

-----------------------------------------------------------------------------
(* Properties of the build, checked under SpecPack and SpecFooter *)

\* the pack steps in their order, by the label prefix of what each appends
PackOrder ==
    <<"__type__", "__signature__", "__header__", "COVER_", "KEYWORD_",
      "TITLE_", "LINKO_", "STYLE_", "PAGE", "__footer__", "__tail__",
      "__footer_address__">>

StepOf(label) == CHOOSE n \in DOMAIN PackOrder : PackOrder[n] = label.base

\* the addresses of the blocks of a label among the first n blocks
AddressesOf(bytes, n, label) == {a \in 1..n : bytes[a].label = label}

\* what a reference to a label must hold in the block at address i: the
\* first address of that label ahead of i, 0 when there is none
Earlier(bytes, i, label) ==
    LET all == AddressesOf(bytes, i - 1, label)
    IN  IF all = {} THEN 0 ELSE CHOOSE a \in all : \A b \in all : a <= b

\* the footer entry of a title, keyword or link: the one address, or the
\* list of them all
EntryOf(bytes, i, label) ==
    LET all == AddressesOf(bytes, i - 1, label)
    IN  IF Cardinality(all) = 1 THEN PyInt(CHOOSE a \in all : TRUE)
        ELSE PyList(all)

\* every address in the footer at address i is that of the block its key
\* names, and every block that has a key is in the footer
FooterFromThisBuild(bytes, i) ==
    LET footer == bytes[i].ints
        Has(label) == AddressesOf(bytes, i - 1, label) # {}
    IN  /\ \A k \in DOMAIN footer :
              /\ k[1] = "FILE_FEATURE" =>
                    /\ footer[k] = Earlier(bytes, i, Label("__header__", 0, ""))
                    /\ footer[k] # 0
              /\ k[1] = "PAGE" =>
                    /\ footer[k] = Earlier(bytes, i, PageLabel(k[2], "metadata"))
                    /\ footer[k] # 0
              /\ k[1] \in MarkBases =>
                    /\ footer[k] = EntryOf(bytes, i, Label(k[1], k[2], "metadata"))
                    /\ Has(Label(k[1], k[2], "metadata"))
              /\ k[1] = "COVER_" =>
                    /\ footer[k] = Earlier(bytes, i, CoverLabel)
                    /\ k[2] = (IF Has(CoverLabel) THEN 2 ELSE 0)
              /\ \A st \in Styles : k = StyleKey(st) =>
                    /\ footer[k] = Earlier(bytes, i, StyleLabel(st))
                    /\ footer[k] # 0
        /\ \A a \in 1..(i - 1) :
              LET label == bytes[a].label
              IN  /\ (label.base = "PAGE" /\ label.part = "metadata") =>
                        FooterKey("PAGE", label.n) \in DOMAIN footer
                  /\ (label.base \in MarkBases /\ label.part = "metadata") =>
                        FooterKey(label.base, label.n) \in DOMAIN footer
                  /\ label.base = "STYLE_" => StyleKey(label.part) \in DOMAIN footer
                  /\ label = CoverLabel => FooterKey("COVER_", 2) \in DOMAIN footer
                  /\ label.base = "__header__" =>
                        FooterKey("FILE_FEATURE", 0) \in DOMAIN footer

\* every address in the metadata block at address i is that of the block
\* the field names, appended ahead of it, or 0 when no such block was
BackwardReferences(bytes, i) ==
    LET label == bytes[i].label
        ints == bytes[i].ints
    IN  /\ (label.base = "PAGE" /\ label.part = "metadata") =>
              /\ \A n \in 1..Len(LayerNames) :
                    LayerNames[n] \in DOMAIN ints =>
                        ints[LayerNames[n]] =
                            Earlier(bytes, i,
                                LayerLabel(label.n, LayerNames[n], "metadata"))
              /\ \A k \in {"TOTALPATH", "RECOGNTEXT", "RECOGNFILE"} :
                    k \in DOMAIN ints =>
                        ints[k] = Earlier(bytes, i, PageLabel(label.n, k))
        /\ \A n \in 1..Len(LayerNames) :
              (label.base = "PAGE"
               /\ label.part = LayerNames[n] \o "/metadata") =>
                  IF LayerNames[n] = "BGLAYER"
                  THEN \/ ints["LAYERBITMAP"] = 0
                       \/ \E st \in Styles :
                             /\ ints["LAYERBITMAP"] = Earlier(bytes, i, StyleLabel(st))
                             /\ ints["LAYERBITMAP"] # 0
                  ELSE /\ ints["LAYERBITMAP"] =
                             Earlier(bytes, i,
                                 LayerLabel(label.n, LayerNames[n], "LAYERBITMAP"))
                       /\ ints["LAYERBITMAP"] # 0
        /\ (label.base \in MarkBases /\ label.part = "metadata") =>
              /\ ints["BITMAP"] =
                    Earlier(bytes, i, Label(label.base, label.n, "BITMAP"))
              /\ ints["BITMAP"] # 0
        /\ label.base = "__footer__" => FooterFromThisBuild(bytes, i)
        /\ label.base = "__footer_address__" =>
              /\ ints["address"] = Earlier(bytes, i, Label("__footer__", 0, ""))
              /\ ints["address"] # 0

\* C24: in the built bytes the blocks stand in the order of the pack steps
\* (type, signature, header, cover, keywords, titles, links, style
\* templates, pages, footer, tail, footer pointer); every address held by a
\* metadata block is that of the block it names, appended ahead of it in
\* the same build, or 0 when the build has no such block; the footer stands
\* behind every page-metadata block and the trailing pointer is the
\* footer's address.
C24_NoForwardReferences ==
    BuiltValid =>
        /\ \A i, j \in 1..Len(reconstructed) :
              i < j => StepOf(reconstructed[i].label) <= StepOf(reconstructed[j].label)
        /\ \A i \in 1..Len(reconstructed) : BackwardReferences(reconstructed, i)

\* C25: every address of the rebuilt footer is this build's address of the
\* block the key names: a page key holds the address of the page's metadata
\* block, a style key and the cover key those of their blocks, a title,
\* keyword or link key the one address of its label or, when the label was
\* appended more than once, the list of them all; every such block has its
\* key; no address is the original file's.
C25_FooterAddressesFromThisBuild ==
    BuiltValid =>
        FooterFromThisBuild(reconstructed,
                            reconstructed[Len(reconstructed)].ints["address"])

C25_Witness ==
    /\ BuiltValid
    /\ Len(loaded.marks) = MaxMarks
    /\ loaded.cover # NoneVal
    /\ Len(loaded.pages) = MaxPages
    /\ \E k \in DOMAIN RebuiltFooter :
          /\ k[1] \in MarkBases
          /\ RebuiltFooter[k].type = "list"
          /\ Cardinality(RebuiltFooter[k].items) = MaxMarks
    /\ RebuiltFooter[FooterKey("PAGE", 1)] # OriginalFooter[FooterKey("PAGE", 1)]
    /\ RebuiltFooter[FooterKey("COVER_", 2)] # OriginalFooter[FooterKey("COVER_", 2)]

-----------------------------------------------------------------------------
(* Further properties of inject_ocr_results, checked under Spec *)

\* C29: handling an entry whose page index is negative is a skip, as for an
\* index >= the page count: it changes no page of the notebook, raises
\* nothing, logs the out-of-range warning and goes on with the loop.
C29_NegativeIndexSkipped ==
    [][\A k \in pending :
          (pc = "loop" /\ k \notin pending' /\ k < 0) =>
              /\ notebook' = notebook
              /\ pc' = "loop"
              /\ exc' = "none"
              /\ "page_out_of_range" \in warnings'
      ]_vars

\* C26: when inject_ocr_results has raised and the backup had been made,
\* whichever step failed (build, validation, stat, the final write partway,
\* the timestamp adjustment, or a step ahead of the try block), the target
\* file holds the content it had before the call.
C26_ContentRestoredWhenRaised ==
    (pc = "raised" /\ backup = FullFile(orig)) => disk = FullFile(orig)

-----------------------------------------------------------------------------
(* Further properties of reconstruct_with_recognition, checked under       *)
(* SpecReconstruct                                                         *)

\* C28: with recogn_type "0" or "1" the header's FILE_RECOGN_TYPE is the
\* given value in the notebook after the header step and in the rebuilt
\* file of a notebook of the supported signature, whatever the original
\* header held for it, nothing included.
C28_TypeEqualsInput ==
    (recogn_type \in {"0", "1"} /\ SignatureSupported(notebook)) =>
        /\ pc \notin {"signature", "header"} =>
              DictGet(notebook.header, "FILE_RECOGN_TYPE", Absent) = recogn_type
        /\ BuiltValid =>
              DictGet(RebuiltHeader, "FILE_RECOGN_TYPE", Absent) = recogn_type

-----------------------------------------------------------------------------
(* get_existing_ocr_text: reading the recognition text a page already      *)
(* carries.  What page.get_recogn_text() gives is a record [encoding,     *)
(* data]: the encoding is one of the three "nothing stored" values (None,  *)
(* the empty text, the marker 'None') or says how the bytes of the block   *)
(* were written, and data is the JSON value they would decode to.  JSON    *)
(* values are tagged records.                                              *)

JNull == [j |-> "null"]
JNum(n) == [j |-> "number", n |-> n]
JStr(s) == [j |-> "string", s |-> s]
JList(items) == [j |-> "array", items |-> items]
JDict(fields) == [j |-> "object", fields |-> fields]

\* what the function hands back: Python None or a str
PyNone == [type |-> "NoneType", int |-> 0]
PyStr(s) == [type |-> "str", str |-> s]

\* the outcome of one step inside the try block
Ok(value) == [raised |-> "none", value |-> value]
Raise(name) == [raised |-> name, value |-> PyNone]

\* the elements a stored record may list
RawElem == JDict([k \in {"type"} |-> JStr("Raw Content")])
TextElem ==
    JDict([k \in {"type", "label"} |->
              IF k = "type" THEN JStr("Text") ELSE JStr("hello")])
TextElemNoLabel == JDict([k \in {"type"} |-> JStr("Text")])
UntypedElem == JDict([k \in {"label"} |-> JStr("hello")])
Elems == {RawElem, TextElem, TextElemNoLabel, UntypedElem, JStr("x"), JNull}

MaxElems == 2

ElementLists ==
    UNION {[1..n -> Elems] : n \in 0..MaxElems}

\* the JSON values a block may decode to
DataValues ==
    {JNull, JNum(7), JStr("x"), JList(<<>>),
     JDict([k \in {"type"} |-> JStr("Text")])}
    \cup {JDict([k \in {"elements"} |-> v]) :
              v \in {JNull, JNum(7), JStr(""), JStr("ab"), RawElem}}
    \cup {JDict([k \in {"elements"} |-> JList(items)]) :
              items \in ElementLists}

Encodings ==
    {"base64", "base64_line_breaks", "bad_padding", "not_utf8", "not_json"}

NothingStored == {NoneVal, "", NoValueMarker}

StoredTexts ==
    {[encoding |-> e, data |-> JNull] : e \in NothingStored}
    \cup {[encoding |-> e, data |-> d] :
              e \in {"base64", "base64_line_breaks"}, d \in DataValues}
    \cup {[encoding |-> e, data |-> JNull] :
              e \in {"bad_padding", "not_utf8", "not_json"}}

\* base64.b64decode(recogn_text): characters outside the alphabet are
\* discarded, wrong padding raises binascii.Error
b64decode(text) ==
    IF text.encoding = "bad_padding"
    THEN Raise("binascii.Error")
    ELSE Ok([utf8 |-> text.encoding # "not_utf8",
             json |-> text.encoding \in {"base64", "base64_line_breaks"},
             data |-> text.data])

\* bytes.decode('utf-8')
decode_utf8(bytes) ==
    IF bytes.utf8
    THEN Ok([json |-> bytes.json, data |-> bytes.data])
    ELSE Raise("UnicodeDecodeError")

\* json.loads(decoded)
json_loads(decoded) ==
    IF decoded.json THEN Ok(decoded.data) ELSE Raise("JSONDecodeError")

\* value.get(key, default) of a parsed JSON value
JsonGet(value, key, default) ==
    IF value.j # "object"
    THEN Raise("AttributeError")
    ELSE Ok(DictGet(value.fields, key, default))

\* a JSON value as the Python value the caller receives
AsPython(value) ==
    CASE value.j = "null" -> PyNone
      [] value.j = "string" -> PyStr(value.s)
      [] value.j = "number" -> PyInt(value.n)
      [] OTHER -> PyList(value)

\* what iterating a parsed JSON value yields
IterItems(value) ==
    CASE value.j = "array" -> Ok(value.items)
      [] value.j = "string" ->
            Ok([i \in 1..(IF value.s = "" THEN 0 ELSE 2) |-> JStr("c")])
      [] value.j = "object" ->
            Ok([i \in 1..Cardinality(DOMAIN value.fields) |-> JStr("key")])
      [] OTHER -> Raise("TypeError")

\* the loop: the label of the first element whose type is 'Text'
RECURSIVE FirstTextLabel(_, _)
FirstTextLabel(items, i) ==
    IF i > Len(items)
    THEN Ok(PyNone)
    ELSE LET type == JsonGet(items[i], "type", JNull)
         IN  IF type.raised # "none"
             THEN type
             ELSE IF type.value = JStr("Text")
             THEN Ok(AsPython(DictGet(items[i].fields, "label", JStr(""))))
             ELSE FirstTextLabel(items, i + 1)

\* the body of the try block
TryBody(recogn_text) ==
    LET raw == b64decode(recogn_text)
    IN  IF raw.raised # "none" THEN raw
        ELSE LET decoded == decode_utf8(raw.value)
        IN  IF decoded.raised # "none" THEN decoded
        ELSE LET data == json_loads(decoded.value)
        IN  IF data.raised # "none" THEN data
        ELSE LET listed == JsonGet(data.value, "elements", JList(<<>>))
        IN  IF listed.raised # "none" THEN listed
        ELSE LET items == IterItems(listed.value)
        IN  IF items.raised # "none" THEN items
        ELSE FirstTextLabel(items.value, 1)

ValueErrors == {"binascii.Error", "UnicodeDecodeError", "JSONDecodeError"}
Exceptions == ValueErrors \cup {"AttributeError", "TypeError"}

\* an except clause that names ValueError only
CaughtValueErrorOnly(name) == name \in ValueErrors

\* except Exception
CaughtByExcept(name) == name \in Exceptions

get_existing_ocr_text(nb, page_number) ==
    IF page_number >= Len(nb.pages)
    THEN Ok(PyNone)
    ELSE LET recogn_text == nb.pages[page_number + 1].recogn_text
         IN  IF recogn_text.encoding \in NothingStored
             THEN Ok(PyNone)
             ELSE LET outcome == TryBody(recogn_text)
                  IN  IF CaughtByExcept(outcome.raised)
                      THEN Ok(PyNone)
                      ELSE outcome

\* notebooks of one to MaxPages pages of which at most one carries a block
ReadNotebooks ==
    {[pages |-> [i \in 1..n |->
                    [recogn_text |->
                        IF i = at THEN text
                        ELSE [encoding |-> NoneVal, data |-> JNull]]]] :
        n \in 1..MaxPages, at \in 1..MaxPages, text \in StoredTexts}

InitExisting ==
    /\ pc = "call"
    /\ notebook \in ReadNotebooks
    /\ asked_page \in 0..MaxPages
    /\ backup_dir = FALSE
    /\ recogn_type = "keep"
    /\ page_results = {}
    /\ pending = {}
    /\ orig = <<>>
    /\ disk = NoFile
    /\ backup = NoFile
    /\ loaded = NoNotebook
    /\ reconstructed = NoBytes
    /\ warnings = {}
    /\ exc = "none"
    /\ writes = {}
    /\ returned = ReturnedNothing
    /\ times = InitialTimes
    /\ original_stat = NoStat
    /\ CallsIdle
    /\ LinesIdle
    /\ RunIdle

GetExistingOcrText ==
    /\ pc = "call"
    /\ LET outcome == get_existing_ocr_text(notebook, asked_page)
       IN  /\ exc' = outcome.raised
           /\ returned' = IF outcome.raised = "none"
                          THEN outcome.value
                          ELSE ReturnedNothing
           /\ pc' = IF outcome.raised = "none" THEN "returned" ELSE "raised"
    /\ UNCHANGED <<backup_dir, recogn_type, page_results, pending, orig,
                   disk, backup, notebook, loaded, reconstructed, warnings,
                   writes, times, original_stat, asked_page>>
    /\ UNCHANGED <<call_vars, line_vars, run_vars>>

NextExisting == GetExistingOcrText

SpecExisting == InitExisting /\ [][NextExisting]_vars

\* the block of the page that was asked for
AskedText == notebook.pages[asked_page + 1].recogn_text

\* the stored block is one the decoder or the walk over the record rejects
Malformed(text) ==
    /\ text.encoding \notin NothingStored
    /\ TryBody(text).raised # "none"

\* C22: get_existing_ocr_text never raises, and for a page whose stored
\* block is malformed (bad base64, not UTF-8, not JSON, or JSON of another
\* shape than a record with a list of element records) it returns None,
\* the same result as for a page without a block, with an empty block or
\* with the placeholder marker.
C22_MalformedBlockReadsAsNone ==
    pc # "call" =>
        /\ pc = "returned"
        /\ exc = "none"
        /\ (asked_page < Len(notebook.pages)
               /\ (Malformed(AskedText)
                      \/ AskedText.encoding \in NothingStored))
              => returned = PyNone

C22_Witness ==
    /\ pc = "returned"
    /\ asked_page < Len(notebook.pages)
    /\ Malformed(AskedText)
    /\ TryBody(AskedText).raised = "AttributeError"
    /\ returned = PyNone

-----------------------------------------------------------------------------
(* process_note_file of app/main.py, called up to MaxRuns times on one     *)
(* file, with the database of app/database.py.  A page of the file is      *)
(* [ocr, converts, bglayer_png, image]: whether it holds recognition data, *)
(* whether supernotelib's ImageConverter can render it, whether it has a   *)
(* user_ style with a PNG in its BGLAYER, and the picture it shows.  The   *)
(* content of the file is its sequence of pages; SHA-256 is taken to be    *)
(* free of collisions.  The recognition engine and inject_ocr_results      *)
(* either succeed or raise.                                                *)

OCR_PDF_LAYERS == TRUE

Images == {1, 2}

\* handwritten pages, PDF pages the converter rejects, and pages that
\* cannot be rendered at all
PageKinds ==
    {[ocr |-> o, converts |-> k[1], bglayer_png |-> k[2], image |-> 1] :
        o \in BOOLEAN, k \in {<<TRUE, FALSE>>, <<FALSE, TRUE>>,
                               <<FALSE, FALSE>>}}

Notes == UNION {[1..n -> PageKinds] : n \in 1..MaxPages}

compute_file_hash(content) == [sha256 |-> content]
compute_image_hash(png_bytes) == [sha256 |-> png_bytes]

\* has_ocr_data(notebook, i): the page holds any recognition data
has_ocr_data(nb, i) == nb[i + 1].ocr

\* extract_page: the standard converter first, the BGLAYER fallback when it
\* raises
extract_page(nb, i) ==
    LET page == nb[i + 1]
    IN  IF page.converts
        THEN [raised |-> FALSE, png_bytes |-> page.image,
              from_bglayer |-> FALSE]
        ELSE IF OCR_PDF_LAYERS /\ page.bglayer_png
        THEN [raised |-> FALSE, png_bytes |-> page.image,
              from_bglayer |-> TRUE]
        ELSE [raised |-> TRUE, png_bytes |-> page.image,
              from_bglayer |-> FALSE]

should_process_file(record, current_hash) ==
    IF record = <<>>
    THEN [should |-> TRUE, reason |-> "new_file"]
    ELSE IF record[1].file_hash # current_hash
    THEN [should |-> TRUE, reason |-> "content_changed"]
    ELSE IF record[1].processing_status = "failed"
    THEN [should |-> TRUE, reason |-> "retry_failed"]
    ELSE IF record[1].processing_status = "completed"
    THEN [should |-> FALSE, reason |-> "already_processed"]
    ELSE IF record[1].processing_status = "processing"
    THEN [should |-> TRUE, reason |-> "interrupted_recovery"]
    ELSE [should |-> TRUE, reason |-> "pending"]

\* a new row is 'pending'; an existing row keeps its status
upsert_note_file(record, file_hash) ==
    IF record = <<>>
    THEN <<[file_hash |-> file_hash, processing_status |-> "pending"]>>
    ELSE <<[record[1] EXCEPT !.file_hash = file_hash]>>

update_status(record, status) ==
    IF record = <<>>
    THEN record
    ELSE <<[record[1] EXCEPT !.processing_status = status]>>

is_page_processed(rows, page_number, current_hash) ==
    \E row \in rows :
        /\ row.page_number = page_number
        /\ row.page_hash = current_hash

store_page_result(rows, page_number, page_hash) ==
    {row \in rows : row.page_number # page_number}
    \cup {[page_number |-> page_number, page_hash |-> page_hash]}

\* the pages of the file that hold no recognition data
pages_missing_ocr(nb) == {i \in 0..(Len(nb) - 1) : ~has_ocr_data(nb, i)}

\* the file is left alone: its row says 'completed' with the same hash and
\* every page holds recognition data
SkipsFile(record, nb) ==
    LET answer == should_process_file(record, compute_file_hash(nb))
    IN  /\ ~answer.should
        /\ answer.reason = "already_processed" => pages_missing_ocr(nb) = {}

\* the page loop without its third branch
NeedsOcrHashOnly(hash_matches, page_has_ocr, from_bglayer) ==
    ~(hash_matches /\ page_has_ocr)

\* the three branches ahead of the recognition request
NeedsOcr(hash_matches, page_has_ocr, from_bglayer) ==
    IF hash_matches /\ page_has_ocr THEN FALSE
    ELSE IF hash_matches /\ ~page_has_ocr THEN TRUE
    ELSE IF from_bglayer /\ page_has_ocr THEN FALSE
    ELSE TRUE

\* the page at_page is to be sent to the recognition engine
SendsPage ==
    LET page_data == extract_page(note, at_page)
    IN  /\ ~page_data.raised
        /\ NeedsOcr(is_page_processed(db_pages, at_page,
                        compute_image_hash(page_data.png_bytes)),
                    has_ocr_data(note, at_page),
                    page_data.from_bglayer)

\* the file after inject_ocr_results has written the pages of page_results
Injected(nb, keys) ==
    [i \in 1..Len(nb) |->
        IF (i - 1) \in keys THEN [nb[i] EXCEPT !.ocr = TRUE] ELSE nb[i]]

\* the hash of the file as it was before the injection
HashBeforeInjection(before, after) == compute_file_hash(before)

\* new_hash = compute_file_hash(note_path), taken after the injection
HashAfterInjection(before, after) == compute_file_hash(after)

NoTally == [processed |-> 0, skipped |-> 0, failed |-> 0]

\* what the call has done so far, and how the call before it ended
NewLog(start, last) ==
    [start |-> start, end |-> start, requests |-> {}, wrote |-> FALSE,
     injected |-> FALSE, edited |-> FALSE, outcome |-> "running",
     last |-> last]

InitProcess ==
    /\ note \in Notes
    /\ db_file = <<>>
    /\ db_pages = {}
    /\ write_to_note \in BOOLEAN
    /\ run = 1
    /\ step = "call"
    /\ at_page = 0
    /\ results = {}
    /\ tally = NoTally
    /\ log = NewLog(note, <<>>)
    /\ InjectIdle
    /\ CallsIdle
    /\ LinesIdle
    /\ ReadIdle

Others == <<inject_vars, call_vars, line_vars, read_vars>>

\* lines 201-237: nothing to do
SkipFile ==
    /\ step = "call"
    /\ SkipsFile(db_file, note)
    /\ step' = "returned"
    /\ log' = [log EXCEPT !.outcome = "skipped"]
    /\ UNCHANGED <<note, db_file, db_pages, write_to_note, run, at_page,
                   results, tally, Others>>

\* lines 201-262: the file is to be processed
BeginProcessing ==
    /\ step = "call"
    /\ ~SkipsFile(db_file, note)
    /\ db_file' = update_status(
                      upsert_note_file(db_file, compute_file_hash(note)),
                      "processing")
    /\ tally' = NoTally
    /\ results' = {}
    /\ at_page' = 0
    /\ step' = "pages"
    /\ UNCHANGED <<note, db_pages, write_to_note, run, log, Others>>

\* lines 265-268, 312-315: extract_page raises
ExtractFails ==
    /\ step = "pages"
    /\ at_page < Len(note)
    /\ extract_page(note, at_page).raised
    /\ tally' = [tally EXCEPT !.failed = @ + 1]
    /\ at_page' = at_page + 1
    /\ UNCHANGED <<note, db_file, db_pages, write_to_note, run, step, results,
                   log, Others>>

\* lines 276-288: the page is skipped
SkipPage ==
    /\ step = "pages"
    /\ at_page < Len(note)
    /\ ~extract_page(note, at_page).raised
    /\ ~SendsPage
    /\ tally' = [tally EXCEPT !.skipped = @ + 1]
    /\ at_page' = at_page + 1
    /\ UNCHANGED <<note, db_file, db_pages, write_to_note, run, step, results,
                   log, Others>>

\* lines 290-310: the engine answers, the result is stored and kept
OcrPage ==
    /\ step = "pages"
    /\ at_page < Len(note)
    /\ SendsPage
    /\ log' = [log EXCEPT !.requests = @ \cup {at_page}]
    /\ db_pages' = store_page_result(db_pages, at_page,
                       compute_image_hash(
                           extract_page(note, at_page).png_bytes))
    /\ results' = results \cup {at_page}
    /\ tally' = [tally EXCEPT !.processed = @ + 1]
    /\ at_page' = at_page + 1
    /\ UNCHANGED <<note, db_file, write_to_note, run, step, Others>>

\* lines 292, 312-315: ocr_image raises
OcrFails ==
    /\ step = "pages"
    /\ at_page < Len(note)
    /\ SendsPage
    /\ log' = [log EXCEPT !.requests = @ \cup {at_page}]
    /\ tally' = [tally EXCEPT !.failed = @ + 1]
    /\ at_page' = at_page + 1
    /\ UNCHANGED <<note, db_file, db_pages, write_to_note, run, step, results,
                   Others>>

\* lines 318-333: the injection succeeds and the new hash is recorded
Inject ==
    /\ step = "pages"
    /\ at_page = Len(note)
    /\ write_to_note /\ results # {}
    /\ note' = Injected(note, results)
    /\ db_file' = upsert_note_file(db_file, HashAfterInjection(note, note'))
    /\ log' = [log EXCEPT !.wrote = TRUE, !.injected = TRUE]
    /\ step' = "status"
    /\ UNCHANGED <<db_pages, write_to_note, run, at_page, results, tally,
                   Others>>

\* lines 318-322, 334-336: inject_ocr_results raises, with the file as it
\* was or already rewritten
InjectFails ==
    /\ step = "pages"
    /\ at_page = Len(note)
    /\ write_to_note /\ results # {}
    /\ note' \in {note, Injected(note, results)}
    /\ log' = [log EXCEPT !.wrote = TRUE]
    /\ step' = "status"
    /\ UNCHANGED <<db_file, db_pages, write_to_note, run, at_page, results,
                   tally, Others>>

\* line 318: nothing to inject
NoInject ==
    /\ step = "pages"
    /\ at_page = Len(note)
    /\ ~(write_to_note /\ results # {})
    /\ step' = "status"
    /\ UNCHANGED <<note, db_file, db_pages, write_to_note, run, at_page,
                   results, tally, log, Others>>

\* lines 425-434: the final status
Finish ==
    /\ step = "status"
    /\ LET all_failed ==
               /\ tally.processed = 0
               /\ tally.skipped = 0
               /\ tally.failed > 0
           status == IF all_failed THEN "extraction_failed" ELSE "completed"
       IN  /\ db_file' = update_status(db_file, status)
           /\ log' = [log EXCEPT !.outcome = status, !.end = note]
    /\ step' = "returned"
    /\ UNCHANGED <<note, db_pages, write_to_note, run, at_page, results,
                   tally, Others>>

\* between two calls the user draws on a page, or a sync conflict takes a
\* page's recognition data away
UserEdits ==
    /\ step = "returned"
    /\ run < MaxRuns
    /\ ~log.edited
    /\ \E i \in 1..Len(note) :
           \/ note' = [note EXCEPT ![i].image = 2]
           \/ note[i].ocr /\ note' = [note EXCEPT ![i].ocr = FALSE]
    /\ log' = [log EXCEPT !.edited = TRUE]
    /\ UNCHANGED <<db_file, db_pages, write_to_note, run, step, at_page,
                   results, tally, Others>>

\* the next call of process_note_file on the file
CallAgain ==
    /\ step = "returned"
    /\ run < MaxRuns
    /\ run' = run + 1
    /\ step' = "call"
    /\ log' = NewLog(note, <<[injected |-> log.injected, note |-> log.end]>>)
    /\ UNCHANGED <<note, db_file, db_pages, write_to_note, at_page, results,
                   tally, Others>>

NextProcess ==
    \/ SkipFile
    \/ BeginProcessing
    \/ ExtractFails
    \/ SkipPage
    \/ OcrPage
    \/ OcrFails
    \/ Inject
    \/ InjectFails
    \/ NoInject
    \/ Finish
    \/ UserEdits
    \/ CallAgain

SpecProcess == InitProcess /\ [][NextProcess]_vars

\* the pages that were recovered through the BGLAYER fallback and hold
\* recognition data
TrustedPages ==
    {i \in 0..(Len(note) - 1) :
        /\ ~extract_page(note, i).raised
        /\ extract_page(note, i).from_bglayer
        /\ has_ocr_data(note, i)}

\* C23: while process_note_file runs, a page that extract_page recovered
\* from the BGLAYER and that holds recognition data is not sent to the
\* recognition engine, does not enter page_results and is not changed in
\* the file, whether or not its stored page hash matches.
C23_BglayerPageWithOcrIsLeftAlone ==
    [][step # "returned" =>
          \A i \in TrustedPages :
              /\ i \in log'.requests => i \in log.requests
              /\ i \in results' => i \in results
              /\ note'[i + 1] = note[i + 1]]_vars

C23_Witness ==
    /\ step = "returned"
    /\ log.outcome = "completed"
    /\ \E i \in TrustedPages :
           /\ ~is_page_processed(db_pages, i, compute_image_hash(note[i + 1].image))
           /\ i \notin log.requests
    /\ log.requests # {}
    /\ log.injected

\* C27: when a call has injected, the file's row holds the hash of the
\* rewritten file and the status 'completed'; and the next call on that
\* unchanged file, every page of which holds recognition data, returns as
\* already processed without a recognition request and without a write.
C27_NextCallSkipsAfterInjection ==
    /\ (step = "returned" /\ log.injected /\ ~log.edited) =>
           db_file = <<[file_hash |-> compute_file_hash(note),
                        processing_status |-> "completed"]>>
    /\ (/\ log.last # <<>>
        /\ step # "call"
        /\ log.last[1].injected
        /\ log.last[1].note = log.start
        /\ pages_missing_ocr(log.start) = {}) =>
           /\ step = "returned"
           /\ log.outcome = "skipped"
           /\ log.requests = {}
           /\ ~log.wrote
           /\ note = log.start \/ log.edited

C27_Witness ==
    /\ run = 2
    /\ step = "returned"
    /\ log.last # <<>>
    /\ log.last[1].injected
    /\ log.last[1].note = log.start
    /\ pages_missing_ocr(log.start) = {}
    /\ log.outcome = "skipped"
====
